---- MODULE Spec2Model ----
(***************************************************************************)
(* Model of the multi-signal validation engine of                          *)
(* llm-redundant-document-validation: schema validation, semantic stage    *)
(* merging, cross-model reconciliation and the final aggregation.          *)
(*                                                                         *)
(* Python values are records [t, v]: t is the runtime type name, v the     *)
(* payload (strings are sequences of characters, floats are counted in     *)
(* hundredths, dicts are functions from keys, lists are sequences).        *)
(* Python dicts whose keys may be absent (violations, issues, results)     *)
(* are functions; d.get(k, default) is Get(d, k, default).                 *)
(* The formatted "message" of a violation is left out; the message of a    *)
(* conflict is the tuple of the parts it is formatted from.                *)
(***************************************************************************)
EXTENDS Integers, Sequences, FiniteSets, TLC

VARIABLES
    \* validate_scheme: arguments and return value
    data, scheme_specs, allow_extra_keys, scheme_result,
    \* merge_semantic_results: argument and return value
    stage_results, merged,
    \* multi_stage_semantic_validate: argument, loop position, local list,
    \* log of validator invocations, return value
    validators, ms_pc, ms_stage_results, ms_calls, ms_result,
    \* validate_cross_model: arguments and return value
    json_a, json_b, cm_specs, cross_result,
    \* aggregate_validation: arguments and return value
    schema_in, rule_in, semantic_in, cross_in, aggregated,
    \* _force_schema_shape: arguments and return value
    fs_raw, fs_schema, fs_doc_type, fs_out,
    \* rules of a document type: the type, the record, the rule result of
    \* the batch runner and the outcome of validate_rules_for_doc_type
    rl_doc_type, rl_data, rl_batch, rl_registry,
    \* batch run: the images, the experiment (extractors, primary extractor,
    \* validators), the loop position, the locals of the iteration, the
    \* extractor calls made, the printed lines, the result files, the lines
    \* of index.jsonl and the exception that ended main
    bt_images, bt_extractors, bt_primary, bt_validators, bt_i, bt_pc, bt_doc,
    bt_calls, bt_log, bt_results, bt_index, bt_raised,
    \* save_result_to_file: the clock in seconds, the files of the output
    \* directory, the position in the call, its locals and the calls made
    sv_clock, sv_files, sv_pc, sv_call, sv_returns,
    \* required fields of a record: the document type, the record, and what
    \* validate_scheme, the core rule of the type and validate_rules return
    rq_doc_type, rq_data, rq_scheme, rq_core, rq_rules,
    \* semantic_validate_mistral: retry_on_parse_error, the position in the
    \* call, the model calls made, raw_content and the return value
    sm_retry, sm_pc, sm_calls, sm_raw, sm_result

schemeVars == <<data, scheme_specs, allow_extra_keys, scheme_result>>
mergeVars  == <<stage_results, merged>>
multiVars  == <<validators, ms_pc, ms_stage_results, ms_calls, ms_result>>
crossVars  == <<json_a, json_b, cm_specs, cross_result>>
aggVars    == <<schema_in, rule_in, semantic_in, cross_in, aggregated>>
shapeVars  == <<fs_raw, fs_schema, fs_doc_type, fs_out>>
\* the components around the validators: extraction, rules, batch run
rulesVars  == <<rl_doc_type, rl_data, rl_batch, rl_registry>>
batchVars  == <<bt_images, bt_extractors, bt_primary, bt_validators, bt_i, bt_pc,
                bt_doc, bt_calls, bt_log, bt_results, bt_index, bt_raised>>
saveVars   == <<sv_clock, sv_files, sv_pc, sv_call, sv_returns>>
requiredVars == <<rq_doc_type, rq_data, rq_scheme, rq_core, rq_rules>>
mistralVars == <<sm_retry, sm_pc, sm_calls, sm_raw, sm_result>>
ioVars     == <<saveVars, requiredVars, mistralVars>>
flowVars   == <<shapeVars, rulesVars, batchVars, ioVars>>
\* the validators and the aggregator
validationVars == <<schemeVars, mergeVars, multiVars, crossVars, aggVars>>
vars       == <<validationVars, flowVars>>

----------------------------------------------------------------------------
(* Bounds *)

MaxFields == 2          \* fields of a field specification
MaxStages == 2          \* semantic stages / validators of one call
MaxIssues == 1          \* issues reported by one semantic stage
MaxViolations == 2      \* items of one signal handed to the aggregator

----------------------------------------------------------------------------
(* Python values *)

None == [t |-> "NoneType", v |-> 0]
PyStr(s) == [t |-> "str", v |-> s]
PyInt(n) == [t |-> "int", v |-> n]
PyFloat(h) == [t |-> "float", v |-> h]
PyBool(b) == [t |-> "bool", v |-> b]
PyDict(d) == [t |-> "dict", v |-> d]
PyList(l) == [t |-> "list", v |-> l]

EmptyDict == [k \in {} |-> None]

\* a call that has not returned yet
NoResult == [pending |-> TRUE]

\* d.get(k, default)
Get(d, k, default) == IF k \in DOMAIN d THEN d[k] ELSE default

RECURSIVE Flatten(_)
Flatten(ss) == IF ss = <<>> THEN <<>> ELSE Head(ss) \o Flatten(Tail(ss))

\* all sequences over S of length 0..n
SeqsUpTo(S, n) == UNION {[1..k -> S] : k \in 0..n}

----------------------------------------------------------------------------
(* framework/scheme.py, framework/validation/scheme_validation.py *)

DTypes == {"str", "int", "float", "bool", "dict", "list"}

\* keys a field specification may declare, and a key no specification has
SpecKeyNames == {"name_vorname", "urlaubstage"}
ExtraKeyName == "bemerkung"

\* all keys and sub-keys of the model in the order sorted() gives them
SortedKeys ==
    <<"abteilung", "adressat", "aktenzeichen", "anschrift_aktuell",
      "anschrift_vorher", "art", "behoerde", "bemerkung", "betrag", "bis",
      "datum", "einzugsdatum", "empfaenger", "ende", "erstattungsbetrag",
      "geburtsdatum", "grund", "items", "kosten_details", "mitarbeiter", "name",
      "name_vorname", "personalnummer", "rechnungsnummer", "resturlaub",
      "sender", "siegel", "sonderurlaub", "start", "tage", "total_gross",
      "total_net", "total_vat", "typ", "unterschrift_arbeitnehmer",
      "urlaubstage", "von", "zahlungsfrist", "zielort">>

sorted(S) == SelectSeq(SortedKeys, LAMBDA k : k \in S)

\* FieldSpec with the key it is stored under; a specification is an
\* ordered mapping, i.e. a sequence of entries with distinct keys
FieldSpec == [key : SpecKeyNames, required : BOOLEAN, dtype : DTypes]

SpecKeys(specs) == {specs[i].key : i \in DOMAIN specs}

SpecOf(specs, k) == specs[CHOOSE i \in DOMAIN specs : specs[i].key = k]

FieldSpecMaps ==
    {s \in SeqsUpTo(FieldSpec, MaxFields) :
        \A i, j \in DOMAIN s : i # j => s[i].key # s[j].key}

SchemeValues ==
    {None, PyStr(<<>>), PyStr(<<"a">>), PyInt(3), PyFloat(250), PyBool(TRUE),
     PyDict(EmptyDict), PyDict([k \in {"resturlaub"} |-> PyBool(FALSE)]),
     PyList(<<>>), PyList(<<PyInt(3)>>)}

Extend(d, k, x) == [kk \in DOMAIN d \cup {k} |-> IF kk = k THEN x ELSE d[kk]]

CoreRecords == UNION {[K -> SchemeValues] : K \in SUBSET SpecKeyNames}

\* records over the specification's keys, with or without an extra key
SchemeRecords ==
    CoreRecords \cup
    {Extend(d, ExtraKeyName, x) : d \in CoreRecords, x \in {None, PyStr(<<"a">>)}}

Violation(field, rule, severity) ==
    [field |-> field, rule |-> rule, severity |-> severity]

\* Python's isinstance on the six declared types: bool is a subclass of int
isinstance(value, dtype) ==
    value.t = dtype \/ (value.t = "bool" /\ dtype = "int")

is_instance(value, dtype) ==
    IF value.t = "NoneType" THEN TRUE ELSE isinstance(value, dtype)

\* variant: only null counts as empty
IsEmptyValue_NullOnly(val) == val.t = "NoneType"

\* val is None or val == "" or val == {} or val == []
IsEmptyValue(val) ==
    \/ val.t = "NoneType"
    \/ val.t = "str" /\ val.v = <<>>
    \/ val.t = "dict" /\ DOMAIN val.v = {}
    \/ val.t = "list" /\ val.v = <<>>

\* 1) missing keys
MissingKeyViolations(d, specs) ==
    LET missing_keys == sorted(SpecKeys(specs) \ DOMAIN d)
    IN  [i \in 1..Len(missing_keys) |->
            Violation(missing_keys[i], "missing_key",
                      IF SpecOf(specs, missing_keys[i]).required
                      THEN "error" ELSE "warning")]

\* variant: extra keys are reported whatever allow_extra_keys says
ExtraKeyViolations_Always(d, specs, allow) ==
    LET extra_keys == sorted(DOMAIN d \ SpecKeys(specs))
    IN  [i \in 1..Len(extra_keys) |->
            Violation(extra_keys[i], "unexpected_key", "warning")]

\* 2) extra keys
ExtraKeyViolations(d, specs, allow) ==
    LET extra_keys == sorted(DOMAIN d \ SpecKeys(specs))
    IN  IF extra_keys # <<>> /\ ~allow
        THEN [i \in 1..Len(extra_keys) |->
                Violation(extra_keys[i], "unexpected_key", "warning")]
        ELSE <<>>

\* variant: only null and "" count as empty, [] and {} do not
RequiredEmptyViolations_StringsOnly(d, specs) ==
    Flatten([i \in DOMAIN specs |->
        IF specs[i].key \notin DOMAIN d THEN <<>>
        ELSE IF specs[i].required
                /\ (\/ d[specs[i].key].t = "NoneType"
                    \/ d[specs[i].key].t = "str" /\ d[specs[i].key].v = <<>>)
             THEN <<Violation(specs[i].key, "required_field_empty", "error")>>
             ELSE <<>>])

\* 3) required keys not empty
RequiredEmptyViolations(d, specs) ==
    Flatten([i \in DOMAIN specs |->
        IF specs[i].key \notin DOMAIN d THEN <<>>
        ELSE IF specs[i].required /\ IsEmptyValue(d[specs[i].key])
             THEN <<Violation(specs[i].key, "required_field_empty", "error")>>
             ELSE <<>>])

\* 4) type checks
TypeMismatchViolations(d, specs) ==
    Flatten([i \in DOMAIN specs |->
        IF specs[i].key \notin DOMAIN d THEN <<>>
        ELSE IF d[specs[i].key].t = "NoneType" THEN <<>>
        ELSE IF ~is_instance(d[specs[i].key], specs[i].dtype)
             THEN <<Violation(specs[i].key, "type_mismatch", "warning")>>
             ELSE <<>>])

validate_scheme(d, specs, allow) ==
    LET violations == MissingKeyViolations(d, specs)
                      \o ExtraKeyViolations(d, specs, allow)
                      \o RequiredEmptyViolations(d, specs)
                      \o TypeMismatchViolations(d, specs)
        has_error == \E i \in DOMAIN violations : violations[i].severity = "error"
    IN  [is_valid |-> ~has_error, violations |-> violations]

----------------------------------------------------------------------------
(* framework/validation/multi_stage_validation.py *)

\* JSON null where a string is expected (a model may answer "severity": null)
JsonNull == "<null>"

\* str.lower() on the severity spellings of the model
Lower(s) ==
    CASE s = "ERROR" -> "error"
      [] s = "Warning" -> "warning"
      [] OTHER -> s

\* Python truthiness of an optional string: None and "" are falsy
Truthy(s) == s # JsonNull /\ s # ""

\* x or default
OrElse(s, default) == IF Truthy(s) THEN s ELSE default

\* SemanticIssue: severity may be absent, null or spelled in another case
IssueBase == [field |-> "urlaub_von", type |-> "mismatch"]

SemanticIssues ==
    {IssueBase} \cup
    {("severity" :> sev) @@ IssueBase : sev \in {"error", "warning", "info"}}

\* the issues a stage of the model reports: one with and one without severity
StageIssues == {IssueBase, ("severity" :> "error") @@ IssueBase}

\* what a stage says apart from its verdict
StageProfiles ==
    {[model |-> "gpt-4o", provider |-> "openai", comments |-> "",
      duration_seconds |-> 150],
     [model |-> "pixtral-large-latest", provider |-> "mistral",
      comments |-> "ok", duration_seconds |-> 225]}

StageStatuses == {"valid", "invalid", "uncertain", "parse_error", "skipped"}

IssueLists == {None} \cup {PyList(l) : l \in SeqsUpTo(StageIssues, MaxIssues)}

WithStatus(r) == {r} \cup {("status" :> st) @@ r : st \in StageStatuses}
WithIssues(r) == {r} \cup {("issues" :> is) @@ r : is \in IssueLists}

ProfileOf(v) == CHOOSE p \in StageProfiles : p.provider = v

\* StageResult: status and issues may be absent
StageResults == UNION {WithIssues(r) : r \in WithStatus(ProfileOf("mistral"))}

\* r.get("issues", []) or []
IssuesOf(r) ==
    IF "issues" \in DOMAIN r /\ r["issues"].t = "list" THEN r["issues"].v ELSE <<>>

\* variant: 'uncertain' is tested before 'invalid'
MergedStatus_UncertainFirst(results) ==
    LET statuses == [i \in DOMAIN results |-> Get(results[i], "status", "uncertain")]
    IN  IF \E i \in DOMAIN statuses : statuses[i] \in {"parse_error", "uncertain"}
        THEN "uncertain"
        ELSE IF \E i \in DOMAIN statuses : statuses[i] = "invalid" THEN "invalid"
        ELSE "valid"

MergedStatus(results) ==
    LET statuses == [i \in DOMAIN results |-> Get(results[i], "status", "uncertain")]
    IN  IF \E i \in DOMAIN statuses : statuses[i] = "invalid" THEN "invalid"
        ELSE IF \E i \in DOMAIN statuses : statuses[i] \in {"parse_error", "uncertain"}
             THEN "uncertain"
        ELSE "valid"

RECURSIVE unique_preserve_order(_)
unique_preserve_order(items) ==
    IF items = <<>> THEN <<>>
    ELSE LET init == unique_preserve_order(SubSeq(items, 1, Len(items) - 1))
             x == items[Len(items)]
         IN  IF \E i \in DOMAIN init : init[i] = x THEN init ELSE Append(init, x)

\* variant: an issue already collected is not added again
MergedIssues_Deduplicated(results) ==
    unique_preserve_order(Flatten([i \in DOMAIN results |-> IssuesOf(results[i])]))

MergedIssues(results) == Flatten([i \in DOMAIN results |-> IssuesOf(results[i])])

RECURSIVE SumSeq(_)
SumSeq(s) == IF s = <<>> THEN 0 ELSE Head(s) + SumSeq(Tail(s))

\* severity stats of the merged issues
MergeSeverity(it) == Lower(OrElse(Get(it, "severity", JsonNull), "warning"))

MergedStats(issues) ==
    [errors   |-> Cardinality({i \in DOMAIN issues : MergeSeverity(issues[i]) = "error"}),
     warnings |-> Cardinality({i \in DOMAIN issues : MergeSeverity(issues[i]) = "warning"}),
     infos    |-> Cardinality({i \in DOMAIN issues :
                                 MergeSeverity(issues[i]) \notin {"error", "warning"}})]

\* comments is the list that " | ".join receives; durations are in hundredths
merge_semantic_results(results) ==
    LET issues == MergedIssues(results)
    IN  [status |-> MergedStatus(results),
         issues |-> issues,
         comments |-> SelectSeq([i \in DOMAIN results |-> Get(results[i], "comments", "")],
                                LAMBDA c : c # ""),
         stages |-> results,
         duration_seconds_total |->
             SumSeq([i \in DOMAIN results |-> Get(results[i], "duration_seconds", 0)]),
         models_used |-> unique_preserve_order(
             SelectSeq([i \in DOMAIN results |-> Get(results[i], "model", "")],
                       LAMBDA m : m # "")),
         providers_used |-> unique_preserve_order(
             SelectSeq([i \in DOMAIN results |-> Get(results[i], "provider", "")],
                       LAMBDA m : m # "")),
         stats |-> MergedStats(issues)]

\* the result of multi_stage_semantic_validate without validators
SkippedSentinel ==
    [status |-> "skipped", issues |-> <<>>, comments |-> <<>>, stages |-> <<>>,
     duration_seconds_total |-> 0, models_used |-> <<>>, providers_used |-> <<>>,
     stats |-> [errors |-> 0, warnings |-> 0, infos |-> 0]]

\* the validators a run may configure (build_validator_callable), each with
\* the provider-specific part of what it returns
ValidatorIds == {"openai", "mistral"}

\* what semantic_validate returns: status and issues are always set
ValidatorReturns(v) ==
    {("status" :> st) @@ ("issues" :> PyList(l)) @@ ProfileOf(v) :
        st \in {"valid", "invalid", "uncertain", "parse_error"},
        l \in SeqsUpTo(StageIssues, MaxIssues)}

\* variant: the result is inserted at the front
AppendStage_Front(results, r) == <<r>> \o results

\* stage_results.append(...)
AppendStage(results, r) == Append(results, r)

Event(ev, idx, result) == [ev |-> ev, idx |-> idx, result |-> result]

----------------------------------------------------------------------------
(* framework/validation/cross_model_validation.py *)

Whitespace == {" "}

\* str.lower() on one character of the model's alphabet
LowerChar(c) == IF c = "A" THEN "a" ELSE c

RECURSIVE LStrip(_)
LStrip(s) == IF s # <<>> /\ Head(s) \in Whitespace THEN LStrip(Tail(s)) ELSE s

RECURSIVE RStrip(_)
RStrip(s) ==
    IF s # <<>> /\ s[Len(s)] \in Whitespace
    THEN RStrip(SubSeq(s, 1, Len(s) - 1)) ELSE s

\* v.strip().lower()
StripLower(s) ==
    LET t == RStrip(LStrip(s)) IN [i \in DOMAIN t |-> LowerChar(t[i])]

normalize_str(v) == IF v.t = "str" THEN PyStr(StripLower(v.v)) ELSE v

IsNumber(x) == x.t \in {"int", "float", "bool"}

\* numeric value in hundredths (True is 1, False is 0)
NumVal(x) ==
    CASE x.t = "int" -> 100 * x.v
      [] x.t = "float" -> x.v
      [] x.t = "bool" -> IF x.v THEN 100 ELSE 0

\* Python's == on values
RECURSIVE PyEq(_, _)
PyEq(a, b) ==
    IF IsNumber(a) /\ IsNumber(b) THEN NumVal(a) = NumVal(b)
    ELSE IF a.t # b.t THEN FALSE
    ELSE CASE a.t = "NoneType" -> TRUE
           [] a.t = "str" -> a.v = b.v
           [] a.t = "list" ->
                /\ Len(a.v) = Len(b.v)
                /\ \A i \in DOMAIN a.v : PyEq(a.v[i], b.v[i])
           [] a.t = "dict" ->
                /\ DOMAIN a.v = DOMAIN b.v
                /\ \A k \in DOMAIN a.v : PyEq(a.v[k], b.v[k])

\* x in (None, "")
InEmpties(x) == x.t = "NoneType" \/ (x.t = "str" /\ x.v = <<>>)

both_empty(a, b) == InEmpties(a) /\ InEmpties(b)

\* the first component of what _compare_values returns
compare_values(a, b) ==
    LET a_n == normalize_str(a)
        b_n == normalize_str(b)
    IN  IF PyEq(a_n, b_n) THEN TRUE
        ELSE IF both_empty(a_n, b_n) THEN TRUE
        ELSE FALSE

Conflict(field, severity, ctype, msg) ==
    [field |-> field, severity |-> severity, type |-> ctype, message |-> msg]

RequiredSeverity(spec) == IF spec.required THEN "error" ELSE "warning"

\* severity of a key that both extractors lack
BothMissingSeverity(spec) == RequiredSeverity(spec)

\* key missing
MissingKeyConflicts(key, spec, a_has, b_has) ==
    IF ~a_has /\ ~b_has
    THEN <<Conflict(key, BothMissingSeverity(spec), "missing_key",
                    <<"Key fehlt in beiden Extraktoren (A und B).">>)>>
    ELSE <<Conflict(key, RequiredSeverity(spec), "missing_key",
                    <<"Key fehlt in Extraktor", IF ~a_has THEN "A" ELSE "B">>)>>

\* nested object compare (dict)
DictConflicts(key, spec, a_val, b_val) ==
    LET subkeys == sorted(DOMAIN a_val.v \cup DOMAIN b_val.v)
    IN  Flatten([i \in DOMAIN subkeys |->
            IF compare_values(Get(a_val.v, subkeys[i], None),
                              Get(b_val.v, subkeys[i], None))
            THEN <<>>
            ELSE <<Conflict(key, RequiredSeverity(spec), "mismatch",
                            <<"mismatch at", key, subkeys[i]>>)>>])

\* the conflicts one iteration of the loop over scheme_specs adds
FieldConflicts(spec, a, b) ==
    LET key == spec.key
        a_has == key \in DOMAIN a
        b_has == key \in DOMAIN b
    IN  IF ~a_has \/ ~b_has THEN MissingKeyConflicts(key, spec, a_has, b_has)
        ELSE IF a[key].t = "dict" /\ b[key].t = "dict"
             THEN DictConflicts(key, spec, a[key], b[key])
        ELSE IF (a[key].t = "dict") # (b[key].t = "dict")
             THEN <<Conflict(key, RequiredSeverity(spec), "type_mismatch",
                             <<"type mismatch", a[key].t, b[key].t>>)>>
        ELSE IF ~compare_values(a[key], b[key])
             THEN <<Conflict(key, RequiredSeverity(spec), "mismatch",
                             <<"mismatch at", key>>)>>
        ELSE <<>>

ConflictStats(conflicts) ==
    [errors   |-> Cardinality({i \in DOMAIN conflicts : conflicts[i].severity = "error"}),
     warnings |-> Cardinality({i \in DOMAIN conflicts : conflicts[i].severity = "warning"}),
     infos    |-> Cardinality({i \in DOMAIN conflicts : conflicts[i].severity = "info"})]

validate_cross_model(a, b, specs) ==
    LET conflicts == Flatten([i \in DOMAIN specs |-> FieldConflicts(specs[i], a, b)])
        stats == ConflictStats(conflicts)
    IN  [is_consistent |-> (stats.errors = 0 /\ stats.warnings = 0),
         conflicts |-> conflicts,
         stats |-> stats]

\* the declared type of each key, as in get_urlaubsantrag_schema
DeclaredType(k) == IF k = "urlaubstage" THEN "int" ELSE "str"

CrossSpecMaps == {s \in FieldSpecMaps : \A i \in DOMAIN s : s[i].dtype = DeclaredType(s[i].key)}

CrossValues ==
    {None, PyStr(<<>>), PyStr(<<"a">>), PyStr(<<"A", " ">>),
     PyInt(3), PyFloat(300), PyFloat(301), PyBool(TRUE),
     PyDict([k \in {"resturlaub"} |-> PyStr(<<"a">>)]),
     PyDict([k \in {"resturlaub", "sonderurlaub"} |->
                IF k = "resturlaub" THEN PyStr(<<"A", " ">>) ELSE None]),
     PyList(<<PyStr(<<"a">>)>>), PyList(<<PyStr(<<"A", " ">>)>>)}

CrossRecords == UNION {[K -> CrossValues] : K \in SUBSET SpecKeyNames}

----------------------------------------------------------------------------
(* framework/pipeline/aggregator.py *)

\* the loops that count the items of one signal by severity
SeverityCounts(items, default) ==
    [errors   |-> Cardinality({i \in DOMAIN items :
                                 Get(items[i], "severity", default) = "error"}),
     warnings |-> Cardinality({i \in DOMAIN items :
                                 Get(items[i], "severity", default) = "warning"}),
     infos    |-> Cardinality({i \in DOMAIN items :
                                 Get(items[i], "severity", default) \notin {"error", "warning"}})]

ZeroCounts == [errors |-> 0, warnings |-> 0, infos |-> 0]

\* cross-model-redundancy: the counts are read from the result's stats
CrossCounts(cross_model_result) ==
    IF cross_model_result = None THEN ZeroCounts
    ELSE LET stats == Get(cross_model_result, "stats", EmptyDict)
         IN  [errors   |-> Get(stats, "errors", 0),
              warnings |-> Get(stats, "warnings", 0),
              infos    |-> Get(stats, "infos", 0)]

\* variant: the cross-model error count is not consulted
FinalStatus_NoCrossErrors(sem_status, sem, rule, schema, cm) ==
    IF \/ sem_status = "invalid" \/ sem.errors > 0 \/ rule.errors > 0
       \/ schema.errors > 0
    THEN "invalid"
    ELSE IF \/ sem_status \in {"parse_error", "uncertain"} \/ sem.warnings > 0
            \/ rule.warnings > 0 \/ schema.warnings > 0 \/ cm.warnings > 0
         THEN "review_needed"
    ELSE "valid"

\* variant: only warning counts lead to review_needed
FinalStatus_WarningCountsOnly(sem_status, sem, rule, schema, cm) ==
    IF \/ sem_status = "invalid" \/ sem.errors > 0 \/ rule.errors > 0
       \/ schema.errors > 0 \/ cm.errors > 0
    THEN "invalid"
    ELSE IF \/ sem.warnings > 0
            \/ rule.warnings > 0 \/ schema.warnings > 0 \/ cm.warnings > 0
         THEN "review_needed"
    ELSE "valid"

\* variant: the semantic status 'invalid' is not consulted
FinalStatus_StatusNeverInvalidates(sem_status, sem, rule, schema, cm) ==
    IF \/ sem.errors > 0 \/ rule.errors > 0
       \/ schema.errors > 0 \/ cm.errors > 0
    THEN "invalid"
    ELSE IF \/ sem_status \in {"parse_error", "uncertain"} \/ sem.warnings > 0
            \/ rule.warnings > 0 \/ schema.warnings > 0 \/ cm.warnings > 0
         THEN "review_needed"
    ELSE "valid"

\* variant: the two branches are tested in the other order
FinalStatus_ReviewFirst(sem_status, sem, rule, schema, cm) ==
    IF \/ sem_status \in {"parse_error", "uncertain"} \/ sem.warnings > 0
       \/ rule.warnings > 0 \/ schema.warnings > 0 \/ cm.warnings > 0
    THEN "review_needed"
    ELSE IF \/ sem_status = "invalid" \/ sem.errors > 0 \/ rule.errors > 0
            \/ schema.errors > 0 \/ cm.errors > 0
         THEN "invalid"
    ELSE "valid"

\* final status
FinalStatus(sem_status, sem, rule, schema, cm) ==
    IF \/ sem_status = "invalid" \/ sem.errors > 0 \/ rule.errors > 0
       \/ schema.errors > 0 \/ cm.errors > 0
    THEN "invalid"
    ELSE IF \/ sem_status \in {"parse_error", "uncertain"} \/ sem.warnings > 0
            \/ rule.warnings > 0 \/ schema.warnings > 0 \/ cm.warnings > 0
         THEN "review_needed"
    ELSE "valid"

\* summary holds the parts that are joined into the summary string
aggregate_validation(schema_result, rule_result, semantic_result, cross_model_result) ==
    LET schema == SeverityCounts(Get(schema_result, "violations", <<>>), "error")
        rule == SeverityCounts(Get(rule_result, "violations", <<>>), "error")
        sem_status == Get(semantic_result, "status", "uncertain")
        sem == SeverityCounts(Get(semantic_result, "issues", <<>>), "warning")
        cm == CrossCounts(cross_model_result)
        final_status == FinalStatus(sem_status, sem, rule, schema, cm)
    IN  [final_status |-> final_status,
         summary |-> [schema |-> schema, rule |-> rule, sem_status |-> sem_status,
                      semantic |-> sem,
                      cross_model |-> IF cross_model_result = None THEN None ELSE cm,
                      final_status |-> final_status],
         schema_validation |-> schema_result,
         rule_validation |-> rule_result,
         semantic_validation |-> semantic_result,
         cross_model_validation |-> cross_model_result]

\* results as the validators build them: is_valid iff no error
ViolationResult(violations) ==
    [is_valid |-> ~\E i \in DOMAIN violations : violations[i].severity = "error",
     violations |-> violations]

\* violations as validate_scheme builds them (error or warning) and as the
\* rules of a document type build them (any severity)
SchemaViolations ==
    {Violation("name_vorname", "missing_key", "error"),
     Violation("urlaubstage", "type_mismatch", "warning")}

RuleViolations ==
    {Violation("von", "date_format", "error"),
     Violation("tage", "days_inconsistent", "warning"),
     Violation("von/bis", "date_order", "info")}

AggConflicts ==
    {Conflict("name_vorname", "error", "mismatch", <<"mismatch at", "name_vorname">>),
     Conflict("urlaubstage", "warning", "mismatch", <<"mismatch at", "urlaubstage">>)}

\* cross-model results as validate_cross_model and the batch runner build them
CrossResultOf(conflicts) ==
    LET stats == ConflictStats(conflicts)
    IN  [is_consistent |-> (stats.errors = 0 /\ stats.warnings = 0),
         conflicts |-> conflicts, stats |-> stats]

\* semantic results as the validators and the merger build them
AggSemanticResults ==
    {[status |-> st, issues |-> l] :
        st \in StageStatuses, l \in SeqsUpTo(SemanticIssues, MaxIssues)}

----------------------------------------------------------------------------
(* Idle values of the components a specification does not exercise *)

IdleScheme ==
    /\ data = EmptyDict /\ scheme_specs = <<>> /\ allow_extra_keys = TRUE
    /\ scheme_result = NoResult
IdleMerge == stage_results = <<>> /\ merged = NoResult
IdleMulti ==
    /\ validators = <<>> /\ ms_pc = "idle" /\ ms_stage_results = <<>>
    /\ ms_calls = <<>> /\ ms_result = NoResult
IdleCross ==
    /\ json_a = EmptyDict /\ json_b = EmptyDict /\ cm_specs = <<>>
    /\ cross_result = NoResult
IdleAgg ==
    /\ schema_in = NoResult /\ rule_in = NoResult /\ semantic_in = NoResult
    /\ cross_in = NoResult /\ aggregated = NoResult
IdleValidation == IdleScheme /\ IdleMerge /\ IdleMulti /\ IdleCross /\ IdleAgg
IdleShape ==
    /\ fs_raw = <<>> /\ fs_schema = <<>> /\ fs_doc_type = <<>> /\ fs_out = NoResult
IdleRules ==
    /\ rl_doc_type = <<>> /\ rl_data = EmptyDict
    /\ rl_batch = NoResult /\ rl_registry = NoResult
IdleBatch ==
    /\ bt_images = <<>> /\ bt_extractors = <<>> /\ bt_primary = 0
    /\ bt_validators = <<>> /\ bt_i = 0 /\ bt_pc = "idle" /\ bt_doc = EmptyDict
    /\ bt_calls = <<>> /\ bt_log = <<>> /\ bt_results = <<>> /\ bt_index = <<>>
    /\ bt_raised = ""
IdleSave ==
    /\ sv_clock = 0 /\ sv_files = <<>> /\ sv_pc = "idle" /\ sv_call = NoResult
    /\ sv_returns = <<>>
IdleRequired ==
    /\ rq_doc_type = <<>> /\ rq_data = EmptyDict /\ rq_scheme = NoResult
    /\ rq_core = NoResult /\ rq_rules = NoResult
IdleMistral ==
    /\ sm_retry = 0 /\ sm_pc = "idle" /\ sm_calls = <<>> /\ sm_raw = <<>>
    /\ sm_result = NoResult
IdleIo == IdleSave /\ IdleRequired /\ IdleMistral
IdleFlow == IdleShape /\ IdleRules /\ IdleBatch /\ IdleIo

----------------------------------------------------------------------------
(* Specification of validate_scheme: any record against any specification *)

InitScheme ==
    /\ scheme_specs \in FieldSpecMaps
    /\ data \in SchemeRecords
    /\ allow_extra_keys \in BOOLEAN
    /\ scheme_result = NoResult
    /\ IdleMerge /\ IdleMulti /\ IdleCross /\ IdleAgg /\ IdleFlow

ValidateScheme ==
    /\ scheme_result = NoResult
    /\ scheme_result' = validate_scheme(data, scheme_specs, allow_extra_keys)
    /\ UNCHANGED <<data, scheme_specs, allow_extra_keys>>
    /\ UNCHANGED <<mergeVars, multiVars, crossVars, aggVars, flowVars>>

NextScheme == ValidateScheme

SpecScheme == InitScheme /\ [][NextScheme]_vars

SchemeReturned == scheme_result # NoResult

----------------------------------------------------------------------------
(* Specification of merge_semantic_results: any list of stage results *)

InitMerge ==
    /\ \E n \in 0..MaxStages : stage_results \in [1..n -> StageResults]
    /\ merged = NoResult
    /\ IdleScheme /\ IdleMulti /\ IdleCross /\ IdleAgg /\ IdleFlow

Merge ==
    /\ merged = NoResult
    /\ merged' = merge_semantic_results(stage_results)
    /\ UNCHANGED stage_results
    /\ UNCHANGED <<schemeVars, multiVars, crossVars, aggVars, flowVars>>

NextMerge == Merge

SpecMerge == InitMerge /\ [][NextMerge]_vars

MergeReturned == merged # NoResult

----------------------------------------------------------------------------
(* Specification of multi_stage_semantic_validate: the loop over the        *)
(* validators, one step per call and per return of a validator             *)

InitMulti ==
    /\ validators \in SeqsUpTo(ValidatorIds, MaxStages)
    /\ ms_pc = "start"
    /\ ms_stage_results = <<>>
    /\ ms_calls = <<>>
    /\ ms_result = NoResult
    /\ IdleScheme /\ IdleMerge /\ IdleCross /\ IdleAgg /\ IdleFlow

othersOfMulti == <<schemeVars, mergeVars, crossVars, aggVars, flowVars>>

\* if not validators: return the sentinel
MsNoValidators ==
    /\ ms_pc = "start" /\ validators = <<>>
    /\ ms_result' = SkippedSentinel
    /\ ms_pc' = "done"
    /\ UNCHANGED <<validators, ms_stage_results, ms_calls, othersOfMulti>>

MsEnterLoop ==
    /\ ms_pc = "start" /\ validators # <<>>
    /\ ms_pc' = "loop"
    /\ UNCHANGED <<validators, ms_stage_results, ms_calls, ms_result, othersOfMulti>>

\* v(image_path=..., extracted_data=...) is entered
MsCallValidator ==
    /\ ms_pc = "loop" /\ Len(ms_stage_results) < Len(validators)
    /\ ms_calls' = Append(ms_calls, Event("call", Len(ms_stage_results) + 1, NoResult))
    /\ ms_pc' = "in_call"
    /\ UNCHANGED <<validators, ms_stage_results, ms_result, othersOfMulti>>

\* the validator returns r, which is appended
MsValidatorReturns ==
    /\ ms_pc = "in_call"
    /\ \E r \in ValidatorReturns(validators[Len(ms_stage_results) + 1]) :
        /\ ms_calls' = Append(ms_calls, Event("return", Len(ms_stage_results) + 1, r))
        /\ ms_stage_results' = AppendStage(ms_stage_results, r)
    /\ ms_pc' = "loop"
    /\ UNCHANGED <<validators, ms_result, othersOfMulti>>

\* the validator raises (semantic_validate_openai does not guard its model
\* call): the exception leaves multi_stage_semantic_validate
MsValidatorRaises ==
    /\ ms_pc = "in_call"
    /\ ms_calls' = Append(ms_calls, Event("raise", Len(ms_stage_results) + 1, NoResult))
    /\ ms_pc' = "raised"
    /\ UNCHANGED <<validators, ms_stage_results, ms_result, othersOfMulti>>

\* return merge_semantic_results(stage_results)
MsReturnMerged ==
    /\ ms_pc = "loop" /\ Len(ms_stage_results) = Len(validators)
    /\ ms_result' = merge_semantic_results(ms_stage_results)
    /\ ms_pc' = "done"
    /\ UNCHANGED <<validators, ms_stage_results, ms_calls, othersOfMulti>>

NextMulti ==
    \/ MsNoValidators
    \/ MsEnterLoop
    \/ MsCallValidator
    \/ MsValidatorReturns
    \/ MsValidatorRaises
    \/ MsReturnMerged

SpecMulti == InitMulti /\ [][NextMulti]_vars

----------------------------------------------------------------------------
(* Specification of validate_cross_model: any two records *)

InitCross ==
    /\ cm_specs \in CrossSpecMaps
    /\ json_a \in CrossRecords
    /\ json_b \in CrossRecords
    /\ cross_result = NoResult
    /\ IdleScheme /\ IdleMerge /\ IdleMulti /\ IdleAgg /\ IdleFlow

ValidateCrossModel ==
    /\ cross_result = NoResult
    /\ cross_result' = validate_cross_model(json_a, json_b, cm_specs)
    /\ UNCHANGED <<json_a, json_b, cm_specs>>
    /\ UNCHANGED <<schemeVars, mergeVars, multiVars, aggVars, flowVars>>

NextCross == ValidateCrossModel

SpecCross == InitCross /\ [][NextCross]_vars

CrossReturned == cross_result # NoResult

----------------------------------------------------------------------------
(* Specification of aggregate_validation: any combination of the signals *)

InitAgg ==
    /\ schema_in \in {ViolationResult(v) : v \in SeqsUpTo(SchemaViolations, MaxViolations)}
    /\ rule_in \in {ViolationResult(v) : v \in SeqsUpTo(RuleViolations, MaxViolations)}
    /\ semantic_in \in AggSemanticResults
    /\ cross_in \in {None} \cup {CrossResultOf(c) : c \in SeqsUpTo(AggConflicts, MaxViolations)}
    /\ aggregated = NoResult
    /\ IdleScheme /\ IdleMerge /\ IdleMulti /\ IdleCross /\ IdleFlow

Aggregate ==
    /\ aggregated = NoResult
    /\ aggregated' = aggregate_validation(schema_in, rule_in, semantic_in, cross_in)
    /\ UNCHANGED <<schema_in, rule_in, semantic_in, cross_in>>
    /\ UNCHANGED <<schemeVars, mergeVars, multiVars, crossVars, flowVars>>

Next == Aggregate

Spec == InitAgg /\ [][Next]_vars

AggReturned == aggregated # NoResult

----------------------------------------------------------------------------
(* Claims about aggregate_validation (Spec) *)

\* the severity of an item as the spec reads it: a semantic issue without
\* severity is a warning (section 4.3), violations and conflicts carry one
ItemSeverity(item) == Get(item, "severity", "warning")

HasItem(items, sev) == \E i \in DOMAIN items : ItemSeverity(items[i]) = sev

AnyItemOf(sev) ==
    \/ HasItem(schema_in.violations, sev)
    \/ HasItem(rule_in.violations, sev)
    \/ HasItem(semantic_in.issues, sev)
    \/ (cross_in # None /\ HasItem(cross_in.conflicts, sev))

ReviewSignal ==
    AnyItemOf("warning") \/ semantic_in.status \in {"uncertain", "parse_error"}

ThreeLevelRule(invalidSignal) ==
    /\ (aggregated.final_status = "invalid") <=> invalidSignal
    /\ (aggregated.final_status = "review_needed") <=> (~invalidSignal /\ ReviewSignal)
    /\ (aggregated.final_status = "valid") <=> (~invalidSignal /\ ~ReviewSignal)

\* C1 as stated: final_status is 'invalid' iff some error-severity item
\* exists in one of the four signals; otherwise 'review_needed' iff some
\* warning-severity item exists or the semantic status is 'uncertain' or
\* 'parse_error'; otherwise 'valid'.
C1_ErrorItemsOnly == AggReturned => ThreeLevelRule(AnyItemOf("error"))

\* C1 amended: final_status is 'invalid' iff some error-severity item exists
\* in one of the four signals or the semantic status is 'invalid'; otherwise
\* 'review_needed' iff some warning-severity item exists or the semantic
\* status is 'uncertain' or 'parse_error'; otherwise 'valid'.
C1_ThreeLevelDecision ==
    AggReturned =>
        ThreeLevelRule(AnyItemOf("error") \/ semantic_in.status = "invalid")

\* the semantic status alone makes the document invalid
C1_Witness ==
    /\ AggReturned
    /\ semantic_in.status = "invalid"
    /\ ~AnyItemOf("error")
    /\ AnyItemOf("warning")
    /\ cross_in # None
    /\ aggregated.final_status = "invalid"

\* C2: with no error-severity item in any signal and a semantic status of
\* 'uncertain' or 'parse_error', final_status is 'review_needed', also when
\* no signal holds a warning-severity item.
C2_UncertainForcesReview ==
    (/\ AggReturned
     /\ ~AnyItemOf("error")
     /\ semantic_in.status \in {"uncertain", "parse_error"})
    => aggregated.final_status = "review_needed"

C2_Witness ==
    /\ AggReturned
    /\ semantic_in.status = "parse_error"
    /\ ~AnyItemOf("error") /\ ~AnyItemOf("warning")
    /\ aggregated.final_status = "review_needed"

\* the decision the items alone lead to
ItemsAloneDecide ==
    IF AnyItemOf("error") THEN "invalid"
    ELSE IF AnyItemOf("warning") THEN "review_needed"
    ELSE "valid"

\* C27: a semantic status of 'invalid' makes final_status 'invalid' also
\* when no signal holds an error-severity item; with a semantic status of
\* 'skipped' or 'valid' the final_status is the one the items alone decide.
C27_StatusInDecision ==
    AggReturned =>
        /\ semantic_in.status = "invalid" => aggregated.final_status = "invalid"
        /\ semantic_in.status \in {"skipped", "valid"}
              => aggregated.final_status = ItemsAloneDecide

\* an 'invalid' verdict with nothing but an info-severity rule violation
C27_Witness ==
    /\ AggReturned
    /\ semantic_in.status = "invalid"
    /\ ~AnyItemOf("error") /\ ~AnyItemOf("warning")
    /\ HasItem(rule_in.violations, "info")
    /\ cross_in = None
    /\ aggregated.final_status = "invalid"

----------------------------------------------------------------------------
(* Claims about validate_scheme (SpecScheme) *)

EmptyValues == {None, PyStr(<<>>), PyDict(EmptyDict), PyList(<<>>)}

RequiredKeys == {scheme_specs[i].key : i \in {j \in DOMAIN scheme_specs : scheme_specs[j].required}}

DeclaredDType(k) == (CHOOSE e \in {scheme_specs[i] : i \in DOMAIN scheme_specs} : e.key = k).dtype

\* number of returned violations of a rule that name a field
NumViolations(k, rule) ==
    Cardinality({i \in DOMAIN scheme_result.violations :
        /\ scheme_result.violations[i].field = k
        /\ scheme_result.violations[i].rule = rule})

SeverityOf(k, rule) ==
    {scheme_result.violations[i].severity :
        i \in {j \in DOMAIN scheme_result.violations :
                /\ scheme_result.violations[j].field = k
                /\ scheme_result.violations[j].rule = rule}}

\* C3: is_valid is false iff some required key of the specification is
\* missing from the record or present with an empty value (null, "", {},
\* []), whatever the types and the extra keys are; and is_valid is true
\* exactly when no returned violation has severity 'error'.
C3_IsValidIffRequiredFilled ==
    SchemeReturned =>
        /\ (~scheme_result.is_valid) <=>
              \E k \in RequiredKeys : k \notin DOMAIN data \/ data[k] \in EmptyValues
        /\ scheme_result.is_valid <=>
              \A i \in DOMAIN scheme_result.violations :
                  scheme_result.violations[i].severity # "error"

\* a required field holds an empty list, another field has the wrong type
C3_Witness ==
    /\ SchemeReturned
    /\ ~scheme_result.is_valid
    /\ \E k \in RequiredKeys : k \in DOMAIN data /\ data[k] = PyList(<<>>)
    /\ \E k \in SpecKeyNames : NumViolations(k, "type_mismatch") = 1

\* C4: each key of the specification absent from the record yields exactly
\* one missing_key violation (error if required, else warning), a present
\* key none; each key of the record absent from the specification yields
\* exactly one warning unexpected_key violation when allow_extra_keys is
\* false and none when it is true; every violation names a key of the
\* specification or, with allow_extra_keys false, an extra key of the record.
C4_KeySetDifferences ==
    SchemeReturned =>
        /\ \A k \in SpecKeys(scheme_specs) :
              IF k \notin DOMAIN data
              THEN /\ NumViolations(k, "missing_key") = 1
                   /\ SeverityOf(k, "missing_key") =
                         {IF k \in RequiredKeys THEN "error" ELSE "warning"}
              ELSE NumViolations(k, "missing_key") = 0
        /\ \A k \in DOMAIN data \ SpecKeys(scheme_specs) :
              IF allow_extra_keys
              THEN NumViolations(k, "unexpected_key") = 0
              ELSE /\ NumViolations(k, "unexpected_key") = 1
                   /\ SeverityOf(k, "unexpected_key") = {"warning"}
        /\ \A i \in DOMAIN scheme_result.violations :
              scheme_result.violations[i].field \in
                  SpecKeys(scheme_specs) \cup
                  (IF allow_extra_keys THEN {} ELSE DOMAIN data \ SpecKeys(scheme_specs))

C4_Witness ==
    /\ SchemeReturned
    /\ ~allow_extra_keys
    /\ ExtraKeyName \in DOMAIN data
    /\ \E k \in RequiredKeys : k \notin DOMAIN data
    /\ \E k \in SpecKeys(scheme_specs) \ RequiredKeys : k \notin DOMAIN data
    /\ Len(scheme_result.violations) = 3

\* C5: for every key in both the specification and the record there is
\* exactly one warning type_mismatch violation when the value is non-null
\* and its runtime type differs from the declared dtype, and none when the
\* value is null or has the declared type (a boolean in an integer field
\* and an integer in a float field included).
C5_TypeMismatchExact ==
    SchemeReturned =>
        \A k \in SpecKeys(scheme_specs) \cap DOMAIN data :
            IF data[k].t # "NoneType" /\ data[k].t # DeclaredDType(k)
            THEN /\ NumViolations(k, "type_mismatch") = 1
                 /\ SeverityOf(k, "type_mismatch") = {"warning"}
            ELSE NumViolations(k, "type_mismatch") = 0

----------------------------------------------------------------------------
(* Claims about merge_semantic_results (SpecMerge) *)

\* the statuses of the stages; a stage without status counts as 'uncertain'
StatusesOf(results) == {Get(results[i], "status", "uncertain") : i \in DOMAIN results}

ExpectedStatus(results) ==
    IF "invalid" \in StatusesOf(results) THEN "invalid"
    ELSE IF StatusesOf(results) \cap {"uncertain", "parse_error"} # {} THEN "uncertain"
    ELSE "valid"

Reorderings(seq) ==
    {[i \in DOMAIN seq |-> seq[p[i]]] :
        p \in {f \in [DOMAIN seq -> DOMAIN seq] :
                 \A i, j \in DOMAIN seq : i # j => f[i] # f[j]}}

\* C6: for a non-empty stage list the merged status is 'invalid' if any
\* stage is 'invalid', else 'uncertain' if any stage is 'uncertain' or
\* 'parse_error', else 'valid', and every permutation of the stage list
\* merges to the same status.
C6_StatusPrecedence ==
    (MergeReturned /\ stage_results # <<>>) =>
        /\ merged.status = ExpectedStatus(stage_results)
        /\ \A perm \in Reorderings(stage_results) :
              merge_semantic_results(perm).status = merged.status

\* an 'invalid' stage after a 'parse_error' stage
C6_Witness ==
    /\ MergeReturned
    /\ Len(stage_results) = 2
    /\ Get(stage_results[1], "status", "uncertain") = "parse_error"
    /\ Get(stage_results[2], "status", "uncertain") = "invalid"
    /\ merged.status = "invalid"

\* where the issues of stage i start in the merged list
IssueOffset(results, i) ==
    SumSeq([j \in 1..(i - 1) |-> Len(IssuesOf(results[j]))])

\* C7: the merged issues are the stages' issues concatenated in stage order
\* without deduplication: the length is the sum of the stages' issue
\* counts and issue j of stage i stands at its place after the issues of
\* the stages before i.
C7_IssuesConcatenated ==
    MergeReturned =>
        /\ Len(merged.issues) =
              SumSeq([i \in DOMAIN stage_results |-> Len(IssuesOf(stage_results[i]))])
        /\ \A i \in DOMAIN stage_results :
              \A j \in DOMAIN IssuesOf(stage_results[i]) :
                  merged.issues[IssueOffset(stage_results, i) + j]
                      = IssuesOf(stage_results[i])[j]

\* two stages report the same issue, the merged list holds it twice
C7_Witness ==
    /\ MergeReturned
    /\ Len(stage_results) = 2
    /\ Len(IssuesOf(stage_results[1])) = 1
    /\ IssuesOf(stage_results[1]) = IssuesOf(stage_results[2])
    /\ Len(merged.issues) = 2
    /\ merged.issues[1] = merged.issues[2]

----------------------------------------------------------------------------
(* Claims about multi_stage_semantic_validate (SpecMulti) *)

\* C8: the validators are invoked one after another in list order, each at
\* most once and the next one only after the one before has returned; when
\* the call returns, every validator was invoked exactly once and stages[i]
\* is what validator i returned; with no validator nothing is invoked and
\* the result is the 'skipped' sentinel without issues, stages or counts.
C8_SequentialInvocation ==
    /\ \A j \in DOMAIN ms_calls :
          /\ ms_calls[j].idx = (j + 1) \div 2
          /\ (ms_calls[j].ev = "call") <=> (j % 2 = 1)
    /\ (ms_pc = "done" /\ validators # <<>>) =>
          /\ Len(ms_calls) = 2 * Len(validators)
          /\ Len(ms_result.stages) = Len(validators)
          /\ \A i \in DOMAIN validators :
                /\ ms_calls[2 * i].ev = "return"
                /\ ms_result.stages[i] = ms_calls[2 * i].result
    /\ (ms_pc = "done" /\ validators = <<>>) =>
          /\ ms_calls = <<>>
          /\ ms_result.status = "skipped"
          /\ ms_result.issues = <<>>
          /\ ms_result.stages = <<>>
          /\ ms_result.stats = [errors |-> 0, warnings |-> 0, infos |-> 0]

\* two validators have returned different results and the call is over
C8_Witness ==
    /\ ms_pc = "done"
    /\ Len(validators) = 2
    /\ Len(ms_calls) = 4
    /\ ms_calls[2].result # ms_calls[4].result
    /\ ms_result.stages = <<ms_calls[2].result, ms_calls[4].result>>

----------------------------------------------------------------------------
(* Claims about validate_cross_model (SpecCross) *)

\* C9: a record compared with itself is consistent and yields no error or
\* warning conflict, also when it lacks keys of the specification.
C9_Reflexive ==
    (CrossReturned /\ json_a = json_b) =>
        /\ cross_result.is_consistent
        /\ \A i \in DOMAIN cross_result.conflicts :
              cross_result.conflicts[i].severity \notin {"error", "warning"}

SeverityRank(sev) ==
    CASE sev = "error" -> 2
      [] sev = "warning" -> 1
      [] OTHER -> 0

ConflictsOf(k) ==
    {cross_result.conflicts[i] :
        i \in {j \in DOMAIN cross_result.conflicts : cross_result.conflicts[j].field = k}}

NumConflicts(k) ==
    Cardinality({j \in DOMAIN cross_result.conflicts : cross_result.conflicts[j].field = k})

OneSidedMessages == {<<"Key fehlt in Extraktor", "A">>, <<"Key fehlt in Extraktor", "B">>}

\* C10: a key of the specification absent from exactly one record yields one
\* missing_key conflict, error if the field is required and warning
\* otherwise; a key absent from both records yields one missing_key
\* conflict that differs from the one-sided one and whose severity is lower
\* than that of a one-sided absence of the same field.
C10_MissingKeySeverity ==
    CrossReturned =>
        \A n \in DOMAIN cm_specs :
            LET k == cm_specs[n].key
                oneSided == IF cm_specs[n].required THEN "error" ELSE "warning"
            IN  /\ ((k \in DOMAIN json_a) # (k \in DOMAIN json_b)) =>
                      /\ NumConflicts(k) = 1
                      /\ \A c \in ConflictsOf(k) :
                            /\ c.type = "missing_key"
                            /\ c.severity = oneSided
                            /\ c.message \in OneSidedMessages
                /\ (k \notin DOMAIN json_a /\ k \notin DOMAIN json_b) =>
                      /\ NumConflicts(k) = 1
                      /\ \A c \in ConflictsOf(k) :
                            /\ c.type = "missing_key"
                            /\ c.message \notin OneSidedMessages
                            /\ SeverityRank(c.severity) < SeverityRank(oneSided)

\* values the claims call numeric: JSON numbers, not booleans
IsJsonNumber(x) == x.t \in {"int", "float"}

AbsDiff(x, y) == IF x >= y THEN x - y ELSE y - x

\* C11: two numeric values of one field that differ by no more than 0.01
\* produce no conflict; numeric values that differ by more produce exactly
\* one 'mismatch' conflict.
C11_NumericTolerance ==
    CrossReturned =>
        \A n \in DOMAIN cm_specs :
            LET k == cm_specs[n].key
            IN  (/\ k \in DOMAIN json_a /\ k \in DOMAIN json_b
                 /\ IsJsonNumber(json_a[k]) /\ IsJsonNumber(json_b[k])) =>
                    IF AbsDiff(NumVal(json_a[k]), NumVal(json_b[k])) <= 1
                    THEN NumConflicts(k) = 0
                    ELSE /\ NumConflicts(k) = 1
                         /\ \A c \in ConflictsOf(k) : c.type = "mismatch"

\* equality of two values as section 4.4 of the specification reads it:
\* strings after trimming and case-folding, null and "" alike, lists by
\* length and then element by element, objects key by key at every depth
RECURSIVE StructurallyEqual(_, _)
StructurallyEqual(a, b) ==
    IF a.t = "list" /\ b.t = "list"
    THEN /\ Len(a.v) = Len(b.v)
         /\ \A i \in DOMAIN a.v : StructurallyEqual(a.v[i], b.v[i])
    ELSE IF a.t = "dict" /\ b.t = "dict"
    THEN \A k \in DOMAIN a.v \cup DOMAIN b.v :
            StructurallyEqual(Get(a.v, k, None), Get(b.v, k, None))
    ELSE IF a.t \in {"list", "dict"} \/ b.t \in {"list", "dict"} THEN FALSE
    ELSE \/ PyEq(normalize_str(a), normalize_str(b))
         \/ (InEmpties(normalize_str(a)) /\ InEmpties(normalize_str(b)))

\* C12: for a key both records hold, there is no conflict exactly when the
\* two values are structurally equal: lists of equal length with equal
\* elements after trimming and case-folding, objects compared key by key.
C12_StructuralCompare ==
    CrossReturned =>
        \A n \in DOMAIN cm_specs :
            LET k == cm_specs[n].key
            IN  (k \in DOMAIN json_a /\ k \in DOMAIN json_b) =>
                    ((NumConflicts(k) = 0) <=> StructurallyEqual(json_a[k], json_b[k]))

----------------------------------------------------------------------------
(* framework/extraction/extractor_pixtral.py: keys and doc types are        *)
(* sequences of characters over lower-case letters, "A", digits, " ", "-"   *)
(* and "_"                                                                  *)

LowerLetters ==
    {"a", "b", "c", "d", "e", "f", "g", "h", "i", "j", "k", "l", "m",
     "n", "o", "p", "q", "r", "s", "t", "u", "v", "w", "x", "y", "z"}
UpperLetters == {"A"}
Digits == <<"0", "1", "2", "3", "4", "5", "6", "7", "8", "9">>
IsDigit(c) == \E i \in DOMAIN Digits : Digits[i] = c

\* the two re.sub passes together: "_" goes before a capital that is
\* followed by a lower-case letter (first pass) or that follows a
\* lower-case letter or digit (second pass)
camel_to_snake(s) ==
    Flatten([i \in DOMAIN s |->
        IF /\ i > 1
           /\ s[i] \in UpperLetters
           /\ \/ (i < Len(s) /\ s[i + 1] \in LowerLetters)
              \/ s[i - 1] \in LowerLetters
              \/ IsDigit(s[i - 1])
        THEN <<"_", s[i]>>
        ELSE <<s[i]>>])

\* re.sub(r"__+", "_", k)
CollapseUnderscores(s) ==
    SelectSeq([i \in DOMAIN s |->
                  IF s[i] = "_" /\ i > 1 /\ s[i - 1] = "_" THEN "" ELSE s[i]],
              LAMBDA c : c # "")

RECURSIVE StripUnderscores(_)
StripUnderscores(s) ==
    IF s # <<>> /\ Head(s) = "_" THEN StripUnderscores(Tail(s))
    ELSE IF s # <<>> /\ s[Len(s)] = "_"
         THEN StripUnderscores(SubSeq(s, 1, Len(s) - 1))
    ELSE s

\* k.lower()
LowerAll(s) == [i \in DOMAIN s |-> LowerChar(s[i])]

\* k.replace("-", "_").replace(" ", "_")
ReplaceDashesAndBlanks(s) ==
    [i \in DOMAIN s |-> IF s[i] \in {"-", " "} THEN "_" ELSE s[i]]

normalize_key(k) ==
    StripUnderscores(CollapseUnderscores(ReplaceDashesAndBlanks(
        LowerAll(camel_to_snake(RStrip(LStrip(k)))))))

\* length of the common run of a from i and b from j
RECURSIVE CommonRun(_, _, _, _)
CommonRun(a, i, b, j) ==
    IF i <= Len(a) /\ j <= Len(b) /\ a[i] = b[j]
    THEN 1 + CommonRun(a, i + 1, b, j + 1)
    ELSE 0

\* the common runs of a and b, one from every pair of positions
Blocks(a, b) ==
    {[i |-> p[1], j |-> p[2], size |-> CommonRun(a, p[1], b, p[2])] :
        p \in (DOMAIN a) \X (DOMAIN b)}

\* m is longer than n, or as long and not later in a, then in b
LongerOrEarlier(m, n) ==
    \/ m.size > n.size
    \/ m.size = n.size /\ m.i < n.i
    \/ m.size = n.size /\ m.i = n.i /\ m.j <= n.j

BestBlock(blocks) == CHOOSE m \in blocks : \A n \in blocks : LongerOrEarlier(m, n)

\* SequenceMatcher.find_longest_match without junk: the longest block, the
\* earliest in a and then the earliest in b among equally long ones
LongestMatch(a, b) == BestBlock(Blocks(a, b))

\* sum of the sizes of SequenceMatcher.get_matching_blocks: the longest
\* block m and the blocks to its left and to its right
RECURSIVE MatchingSize(_, _)
MatchingAround(a, b, m) ==
    IF m.size = 0 THEN 0
    ELSE m.size
         + MatchingSize(SubSeq(a, 1, m.i - 1), SubSeq(b, 1, m.j - 1))
         + MatchingSize(SubSeq(a, m.i + m.size, Len(a)),
                        SubSeq(b, m.j + m.size, Len(b)))

MatchingSize(a, b) ==
    IF a = <<>> \/ b = <<>> THEN 0
    ELSE MatchingAround(a, b, LongestMatch(a, b))

\* cutoff of get_close_matches, in hundredths
FuzzyCutoff == 92

\* SequenceMatcher(a = candidate, b = word).ratio() >= cutoff
RatioAtLeastCutoff(candidate, word) ==
    200 * MatchingSize(candidate, word) >= FuzzyCutoff * (Len(candidate) + Len(word))

\* the order of the characters of the model's alphabet in Python
CharOrder == <<" ", "-">> \o Digits \o <<"A", "_">> \o
    <<"a", "b", "c", "d", "e", "f", "g", "h", "i", "j", "k", "l", "m",
      "n", "o", "p", "q", "r", "s", "t", "u", "v", "w", "x", "y", "z">>

CharRank(c) == CHOOSE i \in DOMAIN CharOrder : CharOrder[i] = c

\* a < b on strings
RECURSIVE StrLess(_, _)
StrLess(a, b) ==
    IF b = <<>> THEN FALSE
    ELSE IF a = <<>> THEN TRUE
    ELSE IF Head(a) # Head(b) THEN CharRank(Head(a)) < CharRank(Head(b))
    ELSE StrLess(Tail(a), Tail(b))

\* get_close_matches(word, possibilities, n=1, cutoff=0.92): the candidates
\* over the cutoff; the result is the largest (ratio, candidate) pair
CloseCandidates(word, possibilities) ==
    {x \in possibilities : RatioAtLeastCutoff(x, word)}

BetterMatch(x, y, word) ==
    LET mx == MatchingSize(x, word) * (Len(y) + Len(word))
        my == MatchingSize(y, word) * (Len(x) + Len(word))
    IN  mx > my \/ (mx = my /\ StrLess(y, x))

get_close_matches(word, possibilities) ==
    LET cands == CloseCandidates(word, possibilities)
    IN  IF cands = {} THEN <<>>
        ELSE <<CHOOSE x \in cands : \A y \in cands \ {x} : BetterMatch(x, y, word)>>

\* schema keys of the model (rechnung and urlaubsantrag) and the doc types
k_typ == <<"t", "y", "p">>
k_rechnungsnummer == <<"r", "e", "c", "h", "n", "u", "n", "g", "s", "n", "u", "m", "m", "e", "r">>
k_total_vat == <<"t", "o", "t", "a", "l", "_", "v", "a", "t">>
k_tage == <<"t", "a", "g", "e">>
dt_rechnung == <<"r", "e", "c", "h", "n", "u", "n", "g">>
dt_urlaubsantrag == <<"u", "r", "l", "a", "u", "b", "s", "a", "n", "t", "r", "a", "g">>
dt_notiz == <<"n", "o", "t", "i", "z">>

\* _alias_map_for_doc_type, the entries of the model's schema keys
alias_map_for_doc_type(dt_arg) ==
    LET dt == StripLower(dt_arg)
        typ_aliases == <<<<"t", "y", "p">>,
                       <<"d", "o", "c", "u", "m", "e", "n", "t", "_", "t", "y", "p", "e">>,
                       <<"d", "o", "c", "t", "y", "p", "e">>>>
    IN  IF dt = dt_rechnung THEN
            (k_typ :> typ_aliases) @@
            (k_rechnungsnummer :>
                <<<<"r", "e", "c", "h", "n", "u", "n", "g", "s", "n", "u", "m", "m", "e", "r">>,
                  <<"i", "n", "v", "o", "i", "c", "e", "_", "n", "u", "m", "b", "e", "r">>,
                  <<"i", "n", "v", "o", "i", "c", "e", "_", "n", "o">>,
                  <<"i", "n", "v", "o", "i", "c", "e", "i", "d">>,
                  <<"r", "e", "c", "h", "n", "u", "n", "g", "_", "n", "r">>,
                  <<"r", "e", "c", "h", "n", "u", "n", "g", "n", "u", "m", "m", "e", "r">>>>) @@
            (k_total_vat :>
                <<<<"t", "o", "t", "a", "l", "_", "v", "a", "t">>,
                  <<"m", "w", "s", "t">>,
                  <<"v", "a", "t">>,
                  <<"t", "a", "x">>,
                  <<"t", "a", "x", "_", "a", "m", "o", "u", "n", "t">>>>)
        ELSE IF dt = dt_urlaubsantrag THEN
            (k_typ :> typ_aliases) @@
            (k_tage :>
                <<<<"t", "a", "g", "e">>,
                  <<"u", "r", "l", "a", "u", "b", "s", "t", "a", "g", "e">>,
                  <<"d", "a", "y", "s">>,
                  <<"d", "a", "y", "_", "c", "o", "u", "n", "t">>>>)
        ELSE [k \in {} |-> <<>>]

\* int(s) of a string of digits
RECURSIVE DigitsValue(_)
DigitsValue(s) ==
    IF s = <<>> THEN 0
    ELSE 10 * DigitsValue(SubSeq(s, 1, Len(s) - 1))
         + (CHOOSE i \in DOMAIN Digits : Digits[i] = s[Len(s)]) - 1

\* _coerce_number on null, numbers and strings of letters, digits and
\* blanks (no currency mark, comma, point or sign to replace): the digits
\* that are left are read as one number; the result is a float or None
coerce_number(x) ==
    IF x.t = "NoneType" THEN None
    ELSE IF IsNumber(x) THEN PyFloat(NumVal(x))
    ELSE LET s == RStrip(LStrip(x.v))
             kept == SelectSeq(s, IsDigit)
         IN  IF s = <<>> THEN None
             ELSE IF kept = <<>> THEN None
             ELSE PyFloat(100 * DigitsValue(kept))

\* raw_norm: the later of two raw keys with one normal form wins
RawNorm(raw_items) ==
    [k \in {normalize_key(raw_items[i].key) : i \in DOMAIN raw_items} |->
        LET last == CHOOSE i \in DOMAIN raw_items :
                        /\ normalize_key(raw_items[i].key) = k
                        /\ \A j \in DOMAIN raw_items :
                              normalize_key(raw_items[j].key) = k => j <= i
        IN  raw_items[last].value]

\* variant: the fuzzy match is tried before the alias list
ResolveKey_FuzzyBeforeAlias(sk, raw_norm, alias_map) ==
    LET sk_norm == normalize_key(sk)
        aliases == Get(alias_map, sk, <<>>)
        hits == {i \in DOMAIN aliases : normalize_key(aliases[i]) \in DOMAIN raw_norm}
        candidates == get_close_matches(sk_norm, DOMAIN raw_norm)
    IN  IF sk_norm \in DOMAIN raw_norm THEN raw_norm[sk_norm]
        ELSE IF candidates # <<>> THEN raw_norm[candidates[1]]
        ELSE IF hits # {}
             THEN raw_norm[normalize_key(aliases[CHOOSE i \in hits : \A j \in hits : i <= j])]
        ELSE None

\* one pass of the loop over schema_keys: direct, alias list, fuzzy
ResolveKey(sk, raw_norm, alias_map) ==
    LET sk_norm == normalize_key(sk)
        aliases == Get(alias_map, sk, <<>>)
        hits == {i \in DOMAIN aliases : normalize_key(aliases[i]) \in DOMAIN raw_norm}
        candidates == get_close_matches(sk_norm, DOMAIN raw_norm)
    IN  IF sk_norm \in DOMAIN raw_norm THEN raw_norm[sk_norm]
        ELSE IF hits # {}
             THEN raw_norm[normalize_key(aliases[CHOOSE i \in hits : \A j \in hits : i <= j])]
        ELSE IF candidates # <<>> THEN raw_norm[candidates[1]]
        ELSE None

\* str(x).strip() == "" for the values of the model
IsBlankText(x) == x.t = "str" /\ RStrip(LStrip(x.v)) = <<>>

\* variant: an empty 'typ' is left as it is
DefaultTyp_Never(out, dt_arg) == out

\* 'typ' falls back to the doc_type argument
DefaultTyp(out, dt_arg) ==
    IF k_typ \in DOMAIN out /\ (out[k_typ].t = "NoneType" \/ IsBlankText(out[k_typ]))
    THEN [k \in DOMAIN out |-> IF k = k_typ THEN PyStr(dt_arg) ELSE out[k]]
    ELSE out

\* the coercion of the float and int fields
CoerceField(value, dtype) ==
    IF value.t = "NoneType" THEN value
    ELSE IF dtype = "float" THEN coerce_number(value)
    ELSE IF dtype = "int"
         THEN LET n == coerce_number(value)
              IN  IF n = None THEN None ELSE PyInt(n.v \div 100)
    ELSE value

force_schema_shape(raw_items, specs, dt_arg) ==
    LET alias_map == alias_map_for_doc_type(dt_arg)
        raw_norm == RawNorm(raw_items)
        matched == [sk \in SpecKeys(specs) |-> ResolveKey(sk, raw_norm, alias_map)]
        typed == DefaultTyp(matched, dt_arg)
    IN  [sk \in SpecKeys(specs) |-> CoerceField(typed[sk], SpecOf(specs, sk).dtype)]

----------------------------------------------------------------------------
(* Specification of _force_schema_shape: any raw output of the model        *)
(* against any part of the schema, for a registered or unknown doc type    *)

MaxRawKeys == 2         \* keys of one raw output

\* FieldSpecs of rechnung.get_schema and urlaubsantrag.get_schema
ShapeFieldSpecs ==
    <<[key |-> k_typ, required |-> TRUE, dtype |-> "str"],
      [key |-> k_rechnungsnummer, required |-> TRUE, dtype |-> "str"],
      [key |-> k_total_vat, required |-> TRUE, dtype |-> "float"],
      [key |-> k_tage, required |-> TRUE, dtype |-> "int"]>>

\* the schemas of the model: none, one or all of the FieldSpecs above
ShapeSchemas ==
    {<<>>, ShapeFieldSpecs} \cup {<<ShapeFieldSpecs[i]>> : i \in DOMAIN ShapeFieldSpecs}

DocTypeArgs == {dt_rechnung, dt_urlaubsantrag, dt_notiz}

\* keys a model may answer with: an alias in two spellings, a misspelling,
\* a camel-case alias, another type's alias, an alias that is also a
\* near match
raw_invoice_number == <<"i", "n", "v", "o", "i", "c", "e", "_", "n", "u", "m", "b", "e", "r">>
raw_invoice_hyphen == <<"i", "n", "v", "o", "i", "c", "e", "-", "n", "u", "m", "b", "e", "r">>
raw_rechnungsnummern == <<"r", "e", "c", "h", "n", "u", "n", "g", "s", "n", "u", "m", "m", "e", "r", "n">>
raw_taxAmount == <<"t", "a", "x", "A", "m", "o", "u", "n", "t">>
raw_days == <<"d", "a", "y", "s">>
raw_rechnungnummer == <<"r", "e", "c", "h", "n", "u", "n", "g", "n", "u", "m", "m", "e", "r">>

\* the key-value pairs of the model's raw outputs; no two keys share a value
RawEntries ==
    {[key |-> k_rechnungsnummer, value |-> PyStr(<<"a", "1">>)],
     [key |-> k_rechnungsnummer, value |-> None],
     [key |-> raw_invoice_number, value |-> PyStr(<<"a", "2">>)],
     [key |-> raw_invoice_hyphen, value |-> PyStr(<<"a", "3">>)],
     [key |-> raw_rechnungsnummern, value |-> PyStr(<<"a", "4">>)],
     [key |-> raw_rechnungnummer, value |-> PyStr(<<"a", "7">>)],
     [key |-> raw_taxAmount, value |-> PyStr(<<"a", "5">>)],
     [key |-> raw_days, value |-> PyFloat(250)],
     [key |-> k_typ, value |-> PyStr(<<"a", "6">>)],
     [key |-> k_typ, value |-> PyStr(<<" ">>)],
     [key |-> k_typ, value |-> None]}

\* a JSON object: entries in order, no key twice
RawOutputs(n) ==
    {r \in [1..n -> RawEntries] : \A i, j \in 1..n : i # j => r[i].key # r[j].key}

InitShape ==
    /\ fs_schema \in ShapeSchemas
    /\ fs_doc_type \in DocTypeArgs
    /\ \E n \in 0..MaxRawKeys : fs_raw \in RawOutputs(n)
    /\ fs_out = NoResult
    /\ IdleValidation /\ IdleRules /\ IdleBatch /\ IdleIo

ForceSchemaShape ==
    /\ fs_out = NoResult
    /\ fs_out' = force_schema_shape(fs_raw, fs_schema, fs_doc_type)
    /\ UNCHANGED <<fs_raw, fs_schema, fs_doc_type>>
    /\ UNCHANGED <<validationVars, rulesVars, batchVars, ioVars>>

NextShape == ForceSchemaShape

SpecShape == InitShape /\ [][NextShape]_vars

ShapeReturned == fs_out # NoResult

----------------------------------------------------------------------------
(* Claims about _force_schema_shape (SpecShape) *)

\* the normalised keys of the raw output and the value each stands for
NormKeys == {normalize_key(fs_raw[i].key) : i \in DOMAIN fs_raw}

ValueAt(nk) == RawNorm(fs_raw)[nk]

AliasesOf(sk) == Get(alias_map_for_doc_type(fs_doc_type), sk, <<>>)

\* the aliases of sk that the raw output holds, as positions of the list
AliasHits(sk) ==
    {i \in DOMAIN AliasesOf(sk) : normalize_key(AliasesOf(sk)[i]) \in NormKeys}

FirstAlias(sk) ==
    normalize_key(AliasesOf(sk)[CHOOSE i \in AliasHits(sk) : \A j \in AliasHits(sk) : i <= j])

\* the raw keys whose similarity to sk reaches 0.92
NearKeys(sk) == {c \in NormKeys : RatioAtLeastCutoff(c, normalize_key(sk))}

ExactMatch(sk) == normalize_key(sk) \in NormKeys

Unmatched(sk) == ~ExactMatch(sk) /\ AliasHits(sk) = {} /\ NearKeys(sk) = {}

\* a matched raw value as the record returns it for key sk: an empty 'typ'
\* gives way to the doc type, numeric fields are coerced
Shaped(sk, x) ==
    IF sk = k_typ /\ (x.t = "NoneType" \/ IsBlankText(x)) THEN PyStr(fs_doc_type)
    ELSE CoerceField(x, SpecOf(fs_schema, sk).dtype)

\* C13: each schema key is resolved by the first source that matches: the
\* exact normalised key, else the first alias of the doc type's list that
\* the raw output holds, else a raw key at least 0.92 similar; and a raw
\* key 'invoice_number' populates 'rechnungsnummer' of a 'rechnung' as an
\* alias, its similarity to that key being below the cutoff.
C13_ResolutionOrder ==
    ShapeReturned =>
        \A sk \in SpecKeys(fs_schema) :
            /\ ExactMatch(sk) =>
                  fs_out[sk] = Shaped(sk, ValueAt(normalize_key(sk)))
            /\ (~ExactMatch(sk) /\ AliasHits(sk) # {}) =>
                  fs_out[sk] = Shaped(sk, ValueAt(FirstAlias(sk)))
            /\ (~ExactMatch(sk) /\ AliasHits(sk) = {} /\ NearKeys(sk) # {}) =>
                  \E c \in NearKeys(sk) : fs_out[sk] = Shaped(sk, ValueAt(c))
            /\ (/\ sk = k_rechnungsnummer
                /\ StripLower(fs_doc_type) = dt_rechnung
                /\ ~ExactMatch(sk)
                /\ raw_invoice_number \in NormKeys) =>
                  /\ fs_out[sk] = ValueAt(raw_invoice_number)
                  /\ raw_invoice_number \notin NearKeys(sk)

\* 'invoice_number' wins over a misspelt 'rechnungsnummern' that the fuzzy
\* match alone would take
C13_Witness ==
    /\ ShapeReturned
    /\ fs_doc_type = dt_rechnung
    /\ k_rechnungsnummer \in SpecKeys(fs_schema)
    /\ ~ExactMatch(k_rechnungsnummer)
    /\ raw_rechnungsnummern \in NearKeys(k_rechnungsnummer)
    /\ AliasHits(k_rechnungsnummer) = {2}
    /\ fs_out[k_rechnungsnummer] = ValueAt(raw_invoice_number)
    /\ fs_out[k_rechnungsnummer] # ValueAt(raw_rechnungsnummern)

----------------------------------------------------------------------------
(* framework/schemes/rechnung.py, framework/schemes/reisekosten.py           *)
(*                                                                         *)
(* Amounts are whole cents.  float(x) of an amount of c cents is the       *)
(* IEEE-754 double nearest to c/100; round(x, 2) of a sum or product of    *)
(* such amounts is the double nearest to the exact result, which has whole *)
(* cents again.  What the rules need of a double is its distance to the    *)
(* decimal it stands for: a double in [2^e, 2^(e+1)) is a multiple of      *)
(* 2^(e-52), so the double of c/100 is c/100 + s * 2^(e-52) / 25 with      *)
(* s the residue of least magnitude of -c * 2^(50-e) modulo 25.            *)

RECURSIVE Pow2(_)
Pow2(n) == IF n = 0 THEN 1 ELSE 2 * Pow2(n - 1)

\* bits of the fraction of a double
MantissaBits == 52

\* the e with 2^e <= c/100 < 2^(e+1), for c >= 1
Binade(c) ==
    IF c >= 100
    THEN CHOOSE e \in 0..20 : 100 * Pow2(e) <= c /\ c < 200 * Pow2(e)
    ELSE CHOOSE e \in -7..-1 : 100 <= c * Pow2(-e) /\ c * Pow2(-e) < 200

\* 2^n modulo 25 (2^20 is 1 modulo 25)
Pow2Mod25(n) == Pow2(n % 20) % 25

\* s of the double of c/100
RoundingError(c) ==
    IF c = 0 THEN 0
    ELSE LET m == ((c % 25) * Pow2Mod25(MantissaBits - Binade(c) - 2)) % 25
         IN  IF m <= 12 THEN 0 - m ELSE 25 - m

\* abs(calc - float(t)) > tol for calc and t of a and b cents and the
\* literal tol of tolc cents.  A difference of other than tolc cents decides
\* by itself; at exactly tolc cents the subtraction is exact (the operands
\* are within a factor of two of each other, amounts being 0 or at least
\* tolc cents) and the rounding errors of the three doubles decide.
AbsDiffExceeds(a, b, tolc) ==
    LET d == IF a >= b THEN a - b ELSE b - a
        hi == IF a >= b THEN a ELSE b
        lo == IF a >= b THEN b ELSE a
        et == Binade(tolc)
        scaled(c) == IF c = 0 THEN 0 ELSE RoundingError(c) * Pow2(Binade(c) - et)
    IN  IF d # tolc THEN d > tolc
        ELSE scaled(hi) - scaled(lo) > RoundingError(tolc)

\* the tolerances of the three checks, in cents
ItemTolerance == 2
TotalsTolerance == 2
SumTolerance == 5

\* v.split(sep)
RECURSIVE SplitOn(_, _)
SplitOn(s, sep) ==
    IF \A i \in DOMAIN s : s[i] # sep THEN <<s>>
    ELSE LET i == CHOOSE i \in DOMAIN s :
                      s[i] = sep /\ \A j \in 1..(i - 1) : s[j] # sep
         IN  <<SubSeq(s, 1, i - 1)>> \o SplitOn(SubSeq(s, i + 1, Len(s)), sep)

IsDigits(s) == s # <<>> /\ \A i \in DOMAIN s : IsDigit(s[i])

IsLeap(y) == y % 4 = 0 /\ (y % 100 # 0 \/ y % 400 = 0)

DaysInMonth(y, m) ==
    IF m = 2 THEN (IF IsLeap(y) THEN 29 ELSE 28)
    ELSE IF m \in {4, 6, 9, 11} THEN 30 ELSE 31

\* no date: strptime raised ValueError, _parse_date returned None
NoDate == <<>>

\* datetime.strptime(v, "%d.%m.%Y") (yearDigits = 4) and
\* datetime.strptime(v, "%d.%m.%y") (yearDigits = 2) on strings of digits,
\* points and other characters without blanks: the date <<year, month, day>>
\* the year of %Y, and of %y with its pivot at 69
FullYear(yy, yearDigits) ==
    IF yearDigits = 4 THEN yy
    ELSE IF yy < 69 THEN 2000 + yy ELSE 1900 + yy

\* datetime(y, m, d), or no date when the day does not exist
DateOf(y, m, d) ==
    IF m \in 1..12 /\ y >= 1 /\ d >= 1 /\ d <= DaysInMonth(y, m)
    THEN <<y, m, d>> ELSE NoDate

\* the date of the parts p of a string split at its points
DateOfParts(p, yearDigits) ==
    IF \/ Len(p) # 3
       \/ \E i \in DOMAIN p : ~IsDigits(p[i])
       \/ Len(p[1]) > 2 \/ Len(p[2]) > 2 \/ Len(p[3]) # yearDigits
    THEN NoDate
    ELSE DateOf(FullYear(DigitsValue(p[3]), yearDigits),
                DigitsValue(p[2]), DigitsValue(p[1]))

strptime(v, yearDigits) == DateOfParts(SplitOn(v, "."), yearDigits)

\* DATE_FORMATS tried in order
FirstDate(first, second) == IF first # NoDate THEN first ELSE second

\* the loop over DATE_FORMATS on the stripped string v
ParseStripped(v) ==
    IF v = <<>> THEN NoDate ELSE FirstDate(strptime(v, 4), strptime(v, 2))

parse_date(value) ==
    IF value.t # "str" THEN NoDate ELSE ParseStripped(RStrip(LStrip(value.v)))

\* start > end on two dates
DateAfter(x, y) ==
    \/ x[1] > y[1]
    \/ x[1] = y[1] /\ x[2] > y[2]
    \/ x[1] = y[1] /\ x[2] = y[2] /\ x[3] > y[3]

\* data.get(k)
GetOrNone(d, k) == Get(d, k, None)

\* _rule_required_nonempty_core over the keys of the document type
rule_required_nonempty_core(d, keys) ==
    Flatten([i \in DOMAIN keys |->
        IF keys[i] \notin DOMAIN d \/ IsEmptyValue(d[keys[i]])
        THEN <<Violation(keys[i], "required", "error")>> ELSE <<>>])

\* _rule_date_format over the date keys of the document type
\* val not in (None, "") and _parse_date(val) is None
IsBadDate(val) == ~InEmpties(val) /\ parse_date(val) = NoDate

rule_date_format(d, keys) ==
    Flatten([i \in DOMAIN keys |->
        IF IsBadDate(GetOrNone(d, keys[i]))
        THEN <<Violation(keys[i], "date_format", "error")>> ELSE <<>>])

\* _rule_date_range of reisekosten
\* start and end and start > end
IsReversed(start, end) == start # NoDate /\ end # NoDate /\ DateAfter(start, end)

rule_date_range(d, from, to, field) ==
    IF IsReversed(parse_date(GetOrNone(d, from)), parse_date(GetOrNone(d, to)))
    THEN <<Violation(field, "date_range", "error")>> ELSE <<>>

RechnungCoreKeys ==
    <<"sender", "empfaenger", "rechnungsnummer", "datum", "items",
      "total_net", "total_vat", "total_gross">>

ItemKeys == <<"description", "quantity", "unit_price", "total">>

\* f"items[{i}]" and f"items[{i}].{k}" for the i-th item, counted from 1
ItemPath(i) == <<"items[0]", "items[1]", "items[2]", "items[3]">>[i]
ItemKeyPath(i, k) ==
    [description |-> <<"items[0].description", "items[1].description",
                       "items[2].description", "items[3].description">>,
     quantity    |-> <<"items[0].quantity", "items[1].quantity",
                       "items[2].quantity", "items[3].quantity">>,
     unit_price  |-> <<"items[0].unit_price", "items[1].unit_price",
                       "items[2].unit_price", "items[3].unit_price">>,
     total       |-> <<"items[0].total", "items[1].total",
                       "items[2].total", "items[3].total">>][k][i]

rule_items_structure(d) ==
    LET items == GetOrNone(d, "items")
    IN  IF items.t = "NoneType" THEN <<>>
        ELSE IF items.t # "list" THEN <<Violation("items", "type", "error")>>
        ELSE Flatten([i \in DOMAIN items.v |->
                LET it == items.v[i]
                IN  IF it.t # "dict" THEN <<Violation(ItemPath(i), "type", "error")>>
                    ELSE Flatten([j \in DOMAIN ItemKeys |->
                            IF ItemKeys[j] \notin DOMAIN it.v
                            THEN <<Violation(ItemKeyPath(i, ItemKeys[j]),
                                             "missing_key", "warning")>>
                            ELSE <<>>])])

\* round(float(q) * float(up), 2) in cents, for a whole quantity
ItemProduct(q, up) == (NumVal(q) * NumVal(up)) \div 100

rule_item_totals_consistency(d) ==
    LET items == GetOrNone(d, "items")
    IN  IF items.t # "list" THEN <<>>
        ELSE Flatten([i \in DOMAIN items.v |->
                LET it == items.v[i]
                IN  IF it.t # "dict" THEN <<>>
                    ELSE LET q == GetOrNone(it.v, "quantity")
                             up == GetOrNone(it.v, "unit_price")
                             t == GetOrNone(it.v, "total")
                         IN  IF /\ IsNumber(q) /\ IsNumber(up) /\ IsNumber(t)
                                /\ AbsDiffExceeds(ItemProduct(q, up), NumVal(t),
                                                  ItemTolerance)
                             THEN <<Violation(ItemKeyPath(i, "total"),
                                              "item_total_mismatch", "warning")>>
                             ELSE <<>>])

rule_invoice_totals_consistency(d) ==
    LET net == GetOrNone(d, "total_net")
        vat == GetOrNone(d, "total_vat")
        gross == GetOrNone(d, "total_gross")
    IN  IF /\ IsNumber(net) /\ IsNumber(vat) /\ IsNumber(gross)
           /\ AbsDiffExceeds(NumVal(net) + NumVal(vat), NumVal(gross),
                             TotalsTolerance)
        THEN <<Violation("total_gross", "totals_mismatch", "error")>>
        ELSE <<>>

ReisekostenCoreKeys ==
    <<"mitarbeiter", "zielort", "start", "ende", "kosten_details",
      "erstattungsbetrag">>

CostKeys == <<"transport", "hotel", "tagegeld">>

\* parts: the numeric cost parts, in cents
CostParts(details) ==
    Flatten([i \in DOMAIN CostKeys |->
        LET v == GetOrNone(details, CostKeys[i])
        IN  IF IsNumber(v) THEN <<NumVal(v)>> ELSE <<>>])

rule_costs_sum_matches_total(d) ==
    LET details == GetOrNone(d, "kosten_details")
        total == GetOrNone(d, "erstattungsbetrag")
    IN  IF details.t # "dict" \/ ~IsNumber(total) THEN <<>>
        ELSE LET parts == CostParts(details.v)
             IN  IF parts # <<>> /\ AbsDiffExceeds(SumSeq(parts), NumVal(total),
                                                   SumTolerance)
                 THEN <<Violation("erstattungsbetrag", "sum_mismatch", "warning")>>
                 ELSE <<>>

----------------------------------------------------------------------------
(* framework/validation/rule_registry.py, scripts/batch_run.py (rules)      *)

dt_reisekosten == <<"r", "e", "i", "s", "e", "k", "o", "s", "t", "e", "n">>

\* get_rules() of the two document types of the model
RechnungRules ==
    <<"rechnung._rule_required_nonempty_core", "rechnung._rule_date_format",
      "rechnung._rule_items_structure", "rechnung._rule_item_totals_consistency",
      "rechnung._rule_invoice_totals_consistency">>

ReisekostenRules ==
    <<"reisekosten._rule_required_nonempty_core", "reisekosten._rule_date_format",
      "reisekosten._rule_date_range", "reisekosten._rule_costs_sum_matches_total">>

\* rule(data) for a rule function of the two lists
ApplyRule(rule, d) ==
    CASE rule = "rechnung._rule_required_nonempty_core" ->
            rule_required_nonempty_core(d, RechnungCoreKeys)
      [] rule = "rechnung._rule_date_format" -> rule_date_format(d, <<"datum">>)
      [] rule = "rechnung._rule_items_structure" -> rule_items_structure(d)
      [] rule = "rechnung._rule_item_totals_consistency" ->
            rule_item_totals_consistency(d)
      [] rule = "rechnung._rule_invoice_totals_consistency" ->
            rule_invoice_totals_consistency(d)
      [] rule = "reisekosten._rule_required_nonempty_core" ->
            rule_required_nonempty_core(d, ReisekostenCoreKeys)
      [] rule = "reisekosten._rule_date_format" ->
            rule_date_format(d, <<"start", "ende">>)
      [] rule = "reisekosten._rule_date_range" ->
            rule_date_range(d, "start", "ende", "start/ende")
      [] rule = "reisekosten._rule_costs_sum_matches_total" ->
            rule_costs_sum_matches_total(d)

\* every rule function is declared with the one parameter data
RuleParameters == 1

\* the outcome of a call: the value returned or the exception raised
Returned(x) == [raised |-> "", value |-> x]
Raised(exc) == [raised |-> exc, value |-> <<>>]

\* rule(*args): a call with another number of arguments raises TypeError
CallRule(rule, args) ==
    IF Len(args) # RuleParameters THEN Raised("TypeError")
    ELSE Returned(ApplyRule(rule, args[1]))

\* the keys of _RULE_REGISTRY and _SCHEMA_REGISTRY among the model's types
IsRegistered(dt_arg) == StripLower(dt_arg) \in {dt_rechnung, dt_reisekosten}

get_rules_for_type(dt_arg) ==
    LET dt == StripLower(dt_arg)
    IN  IF dt = dt_rechnung THEN RechnungRules
        ELSE IF dt = dt_reisekosten THEN ReisekostenRules
        ELSE <<>>

\* the loop over the rules from rule i on, each called with args: the
\* violations collected, or the exception of the first call that raises
RECURSIVE RuleLoop(_, _, _, _)
\* the loop after the call of rule i ended with res
RuleLoopAfter(rules, i, args, violations, res) ==
    IF res.raised # "" THEN res
    ELSE RuleLoop(rules, i + 1, args, violations \o res.value)

RuleLoop(rules, i, args, violations) ==
    IF i > Len(rules) THEN Returned(violations)
    ELSE RuleLoopAfter(rules, i, args, violations, CallRule(rules[i], args))

\* the result of validate_rules_for_doc_type after its loop
RegistryResult(loop) ==
    IF loop.raised # "" THEN loop
    ELSE [is_valid |-> ~\E i \in DOMAIN loop.value :
                           Get(loop.value[i], "severity", JsonNull) = "error",
          violations |-> loop.value]

\* rule(data, specs) with specs = None
validate_rules_for_doc_type(dt_arg, d) ==
    RegistryResult(RuleLoop(get_rules_for_type(dt_arg), 1, <<d, None>>, <<>>))

\* skipped_result(kind, reason) without the reason text
skipped_result(kind) ==
    [is_valid |-> TRUE, violations |-> <<>>, skipped |-> TRUE, kind |-> kind]

\* rule_result of one document in the batch runner: rule_fn(primary_json)
BatchLoopResult(loop) ==
    IF loop.raised # "" THEN loop
    ELSE [is_valid |-> ~\E i \in DOMAIN loop.value :
               Lower(OrElse(Get(loop.value[i], "severity", JsonNull), "")) = "error",
          violations |-> loop.value]

batch_rule_result(dt_arg, primary_json) ==
    IF ~IsRegistered(dt_arg) THEN skipped_result("rule_validation")
    ELSE BatchLoopResult(RuleLoop(get_rules_for_type(dt_arg), 1, <<primary_json>>, <<>>))

----------------------------------------------------------------------------
(* Specification of the rules of a document type: a record of the type is   *)
(* validated by the batch runner's loop and by validate_rules_for_doc_type  *)

MaxItems == 1           \* items of an invoice

txt == PyStr(<<"a">>)

DateValues ==
    {None, PyStr(<<"0", "9", ".", "0", "1", ".", "2", "0", "2", "6">>),
     PyStr(<<"9", ".", "1", ".", "2", "6">>),
     PyStr(<<"2", "0", "2", "6", "-", "0", "1", "-", "0", "9">>), PyStr(<<"3", "1", ".", "0", "2", ".", "2", "0", "2", "6">>),
     PyInt(9012026)}

\* an invoice item: 2 x 10.00 with the total right, off by exactly the
\* tolerance, off by more, and malformed items
ItemOf(total) ==
    PyDict([k \in {"description", "quantity", "unit_price", "total"} |->
               CASE k = "description" -> txt
                 [] k = "quantity" -> PyInt(2)
                 [] k = "unit_price" -> PyFloat(1000)
                 [] k = "total" -> total])

ItemValues ==
    {ItemOf(PyFloat(2000)), ItemOf(PyFloat(2002)), ItemOf(PyInt(30)), ItemOf(txt),
     PyDict([k \in {"quantity"} |-> PyInt(2)]), txt}

ItemsValues ==
    {None, txt} \cup {PyList(l) : l \in SeqsUpTo(ItemValues, MaxItems)}

\* the string fields of an invoice: all filled, one empty, one missing
RechnungCores ==
    {[k \in K |-> IF k = "empfaenger" THEN e ELSE txt] :
        K \in {{"sender", "empfaenger", "rechnungsnummer"},
               {"empfaenger", "rechnungsnummer"}},
        e \in {txt, PyStr(<<>>)}}

Merge2(f, g) == [k \in DOMAIN f \cup DOMAIN g |-> IF k \in DOMAIN f THEN f[k] ELSE g[k]]

NetValues == {PyFloat(10000), PyFloat(9899), PyInt(100), None}
VatValues == {PyFloat(1900), PyInt(19), txt}
GrossValues == {PyFloat(11900), PyFloat(11902), PyFloat(11801), PyFloat(13000),
                PyInt(119), PyBool(TRUE)}

RechnungRecords ==
    {Merge2(core, [datum |-> dat, items |-> its, total_net |-> net,
                   total_vat |-> vat, total_gross |-> gross]) :
        core \in RechnungCores, dat \in DateValues, its \in ItemsValues,
        net \in NetValues, vat \in VatValues, gross \in GrossValues}

\* kosten_details: any of the three parts may be missing or not a number
CostDetails ==
    {None, txt} \cup
    UNION {{PyDict([k \in K |-> CASE k = "transport" -> t
                                  [] k = "hotel" -> h
                                  [] k = "tagegeld" -> g]) :
                t \in {PyFloat(4000), PyFloat(3996)},
                h \in {PyFloat(5000), txt},
                g \in {PyFloat(1000), PyFloat(995), PyFloat(990), PyFloat(900)}} :
           K \in SUBSET {"transport", "hotel", "tagegeld"}}

TotalValues == {PyFloat(10000), PyFloat(9901), PyInt(100), None, txt}

ReisekostenRecords ==
    {[mitarbeiter |-> txt, zielort |-> z, start |-> s, ende |-> e,
      kosten_details |-> det, erstattungsbetrag |-> tot] :
        z \in {txt, None}, s \in DateValues, e \in DateValues,
        det \in CostDetails, tot \in TotalValues}

RuleDocTypes == {dt_rechnung, dt_reisekosten, dt_notiz}

InitRules ==
    /\ rl_doc_type \in RuleDocTypes
    /\ rl_data \in IF rl_doc_type = dt_rechnung THEN RechnungRecords
                   ELSE ReisekostenRecords
    /\ rl_batch = NoResult
    /\ rl_registry = NoResult
    /\ IdleValidation /\ IdleShape /\ IdleBatch /\ IdleIo

\* scripts/batch_run.py: the rule validation of one document
BatchRuleValidation ==
    /\ rl_batch = NoResult
    /\ rl_batch' = batch_rule_result(rl_doc_type, rl_data)
    /\ UNCHANGED <<rl_doc_type, rl_data, rl_registry>>
    /\ UNCHANGED <<validationVars, shapeVars, batchVars, ioVars>>

ValidateRulesForDocType ==
    /\ rl_registry = NoResult
    /\ rl_registry' = validate_rules_for_doc_type(rl_doc_type, rl_data)
    /\ UNCHANGED <<rl_doc_type, rl_data, rl_batch>>
    /\ UNCHANGED <<validationVars, shapeVars, batchVars, ioVars>>

NextRules == BatchRuleValidation \/ ValidateRulesForDocType

SpecRules == InitRules /\ [][NextRules]_vars

RulesReturned == rl_batch # NoResult

----------------------------------------------------------------------------
(* Claims about the rules of a document type (SpecRules) *)

\* the violations of the batch runner's rule result with the given rule name
ViolationsWith(rule) ==
    SelectSeq(rl_batch.violations, LAMBDA v : v.rule = rule)

IsRechnung == StripLower(rl_doc_type) = dt_rechnung
IsReisekosten == StripLower(rl_doc_type) = dt_reisekosten

\* a JSON number: an int or a float, not a bool
IsAmount(x) == x.t \in {"int", "float"}

\* the operands of the check that reports the violation v are present and
\* of the type the check works on
OperandsUsable(v) ==
    CASE v.rule = "date_format" -> GetOrNone(rl_data, v.field).t = "str"
      [] v.rule = "date_range" ->
            /\ GetOrNone(rl_data, "start").t = "str"
            /\ GetOrNone(rl_data, "ende").t = "str"
      [] v.rule = "totals_mismatch" ->
            /\ IsNumber(GetOrNone(rl_data, "total_net"))
            /\ IsNumber(GetOrNone(rl_data, "total_vat"))
            /\ IsNumber(GetOrNone(rl_data, "total_gross"))
      [] v.rule = "sum_mismatch" ->
            /\ GetOrNone(rl_data, "kosten_details").t = "dict"
            /\ IsNumber(GetOrNone(rl_data, "erstattungsbetrag"))
      [] OTHER -> TRUE

\* C15: every rule function returns a list of violations for every record
\* and never raises, and a check whose operand values are missing, null or
\* of the wrong runtime type is skipped: it reports no violation.
C15_RulesSkipMalformed ==
    (RulesReturned /\ IsRegistered(rl_doc_type)) =>
        /\ "raised" \notin DOMAIN rl_batch
        /\ \A i \in DOMAIN rl_batch.violations :
               OperandsUsable(rl_batch.violations[i])

\* the numeric cost parts of the record and their sum, in cents
PartsOfRecord == CostParts(GetOrNone(rl_data, "kosten_details").v)

\* C16: with amounts in whole cents, the sum rule of reisekosten reports
\* nothing when the sum of the numeric cost parts and the declared total
\* differ by 0.05 or less, and exactly one violation, of severity warning
\* and on the total field, when they differ by more than 0.05.
C16_InclusiveSumTolerance ==
    (/\ RulesReturned /\ IsReisekosten
     /\ GetOrNone(rl_data, "kosten_details").t = "dict"
     /\ IsAmount(GetOrNone(rl_data, "erstattungsbetrag"))
     /\ PartsOfRecord # <<>>) =>
        LET diff == AbsDiff(SumSeq(PartsOfRecord),
                            NumVal(rl_data["erstattungsbetrag"]))
            found == ViolationsWith("sum_mismatch")
        IN  IF diff <= SumTolerance THEN found = <<>>
            ELSE /\ Len(found) = 1
                 /\ found[1].severity = "warning"
                 /\ found[1].field = "erstattungsbetrag"

\* the items of the record are a list of objects with numeric quantity,
\* unit price and total, each total within 0.02 of quantity * unit price
ItemsConsistent ==
    LET items == GetOrNone(rl_data, "items")
    IN  /\ items.t = "list"
        /\ \A i \in DOMAIN items.v :
              LET it == items.v[i]
              IN  /\ it.t = "dict"
                  /\ \A j \in DOMAIN ItemKeys : ItemKeys[j] \in DOMAIN it.v
                  /\ IsAmount(it.v["quantity"]) /\ IsAmount(it.v["unit_price"])
                  /\ IsAmount(it.v["total"])
                  /\ AbsDiff(ItemProduct(it.v["quantity"], it.v["unit_price"]),
                             NumVal(it.v["total"])) <= ItemTolerance

\* the fields of the invoice other than the totals are filled and well-formed
OtherFieldsWellFormed ==
    /\ \A i \in DOMAIN RechnungCoreKeys :
          /\ RechnungCoreKeys[i] \in DOMAIN rl_data
          /\ ~IsEmptyValue(rl_data[RechnungCoreKeys[i]])
    /\ \A k \in {"sender", "empfaenger", "rechnungsnummer"} : rl_data[k].t = "str"
    /\ parse_date(rl_data["datum"]) # NoDate

NumericTotals ==
    /\ IsRechnung
    /\ IsAmount(GetOrNone(rl_data, "total_net"))
    /\ IsAmount(GetOrNone(rl_data, "total_vat"))
    /\ IsAmount(GetOrNone(rl_data, "total_gross"))

TotalsDiff ==
    AbsDiff(NumVal(rl_data["total_net"]) + NumVal(rl_data["total_vat"]),
            NumVal(rl_data["total_gross"]))

\* C17: for an invoice with numeric totals, a gross total within 0.02 of
\* net + vat and item totals within 0.02 of quantity * unit price give no
\* violation of the totals and item-consistency rules, and a valid rule
\* result when the other fields are well-formed; a gross total further
\* than 0.02 from net + vat gives exactly one 'totals_mismatch' violation,
\* an error on total_gross, and the final status 'invalid' whatever the
\* other signals are.
C17_InvoiceTotals ==
    (RulesReturned /\ NumericTotals) =>
        /\ (TotalsDiff <= TotalsTolerance /\ ItemsConsistent) =>
              /\ ViolationsWith("totals_mismatch") = <<>>
              /\ ViolationsWith("item_total_mismatch") = <<>>
              /\ OtherFieldsWellFormed => rl_batch.is_valid
        /\ TotalsDiff > TotalsTolerance =>
              /\ Len(ViolationsWith("totals_mismatch")) = 1
              /\ ViolationsWith("totals_mismatch")[1].severity = "error"
              /\ ViolationsWith("totals_mismatch")[1].field = "total_gross"
              /\ \A sch \in {ViolationResult(<<>>)},
                   sem \in AggSemanticResults,
                   cm \in {None, CrossResultOf(<<>>)} :
                     aggregate_validation(sch, rl_batch, sem, cm).final_status
                         = "invalid"

\* what each registered rule returns for the record, in rule-list order
RuleByRule ==
    LET rules == get_rules_for_type(rl_doc_type)
    IN  Flatten([i \in DOMAIN rules |-> ApplyRule(rules[i], rl_data)])

\* C18: validate_rules_for_doc_type returns {is_valid, violations} with the
\* violations of the registered rules concatenated in rule-list order and
\* is_valid true iff none of them is an error; for an unregistered type it
\* returns is_valid true and no violations; the batch runner's rule result
\* has the same is_valid and violations.
C18_RegistryAggregation ==
    rl_registry # NoResult =>
        /\ DOMAIN rl_registry = {"is_valid", "violations"}
        /\ rl_registry.violations = RuleByRule
        /\ rl_registry.is_valid =
              ~\E i \in DOMAIN RuleByRule : RuleByRule[i].severity = "error"
        /\ ~IsRegistered(rl_doc_type) =>
              rl_registry.is_valid /\ rl_registry.violations = <<>>
        /\ RulesReturned =>
              /\ rl_batch.is_valid = rl_registry.is_valid
              /\ rl_batch.violations = rl_registry.violations

----------------------------------------------------------------------------
(* scripts/batch_run.py: the loop of main over the images                   *)
(*                                                                         *)
(* An image is its file-name prefix, the name of its folder and whether    *)
(* the file can still be read when it is opened.  An extractor or          *)
(* validator of the experiment is its provider.  The result file of an     *)
(* image is named by the position of the image: the names the files get   *)
(* are the subject of save_result_to_file below.                           *)

\* PREFIX_TO_TYPE.get(prefix) for the prefixes of the model; <<>> is None
PrefixToType(prefix) == IF prefix = "INV" THEN dt_rechnung ELSE <<>>

\* detect_doc_type(primary_json={}, img_path): the prefix, else the folder
detect_doc_type(img) ==
    LET dt == PrefixToType(img.prefix)
        parent == StripLower(img.parent)
    IN  IF dt # <<>> THEN dt
        ELSE IF parent # <<>> THEN parent
        ELSE <<"u", "n", "k", "n", "o", "w", "n">>

\* rechnung.get_schema() as a field specification
RechnungSchema ==
    [i \in 1..9 |->
        [key |-> <<"typ", "sender", "empfaenger", "rechnungsnummer", "datum",
                   "items", "total_net", "total_vat", "total_gross">>[i],
         required |-> TRUE,
         dtype |-> <<"str", "str", "str", "str", "str",
                     "list", "float", "float", "float">>[i]]]

\* schema of the iteration: get_schema_for_type raised -> None
SchemaOrNone(dt_arg) ==
    IF StripLower(dt_arg) = dt_rechnung THEN RechnungSchema ELSE None

\* schema or {}
SchemaOrEmpty(schema) == IF schema = None THEN <<>> ELSE schema

\* what an extraction holds when the call to the model raised:
\* {k: None for k in schema.keys()} if schema else {}
NullData(schema) ==
    [k \in SpecKeys(schema) |-> None]

\* an invoice as _force_schema_shape returns it: the keys of the schema
ShapedInvoice(gross) ==
    [k \in SpecKeys(RechnungSchema) |->
        CASE k = "typ" -> PyStr(dt_rechnung)
          [] k = "datum" -> PyStr(<<"0", "9", ".", "0", "1", ".", "2", "0", "2", "6">>)
          [] k = "items" -> PyList(<<ItemOf(PyFloat(2000))>>)
          [] k = "total_net" -> PyFloat(10000)
          [] k = "total_vat" -> PyFloat(1900)
          [] k = "total_gross" -> gross
          [] OTHER -> txt]

\* "data" of what PixtralVisionExtractor.extract_from_image returns when the
\* image could be read: the shaped answer of the model, or nulls
ExtractedData(schema) ==
    IF schema = <<>> THEN {EmptyDict}
    ELSE {ShapedInvoice(PyFloat(11900)), ShapedInvoice(PyFloat(13000)),
          NullData(schema)}

\* the exception an extractor call raises, "" if it returns: the batch
\* runner passes schema= and doc_type=, which GPTVisionExtractor's
\* extract_from_image(self, image_path) does not take; _encode_image runs
\* before the try of the Pixtral extractor
ExtractorRaises(provider, img) ==
    IF provider = "openai" THEN "TypeError"
    ELSE IF ~img.readable THEN "FileNotFoundError"
    ELSE ""

\* sem_result without validators
SemanticDisabled ==
    [SkippedSentinel EXCEPT
        !.comments = <<"Semantic validation disabled for this experiment.">>]

\* what a validator of the batch returns when its call to the model succeeds
BatchValidatorReturns(v) ==
    {r \in ValidatorReturns(v) :
        r.status \in {"valid", "invalid"} /\ r.issues = PyList(<<>>)}

\* cross_result: the conflicts of the primary extraction with every other
RECURSIVE CrossMerged(_, _, _, _)
CrossMerged(jsons, primary, schema, i) ==
    IF i > Len(jsons) THEN <<>>
    ELSE (IF i = primary THEN <<>>
          ELSE validate_cross_model(jsons[primary], jsons[i], schema).conflicts)
         \o CrossMerged(jsons, primary, schema, i + 1)

batch_cross_result(jsons, primary, schema) ==
    IF schema # None /\ Len(jsons) >= 2
    THEN CrossResultOf(CrossMerged(jsons, primary, schema, 1))
    ELSE None

\* the locals of one iteration after routing
RoutedDoc(img) ==
    LET dt == detect_doc_type(img)
        schema == SchemaOrNone(dt)
    IN  [doc_type |-> dt,
         schema |-> schema,
         schema_result |-> IF schema = None THEN skipped_result("schema_validation")
                           ELSE NoResult,
         rule_result |-> IF schema = None THEN skipped_result("rule_validation")
                         ELSE NoResult,
         json_by_extractor |-> <<>>,
         sem_result |-> NoResult,
         pipeline_result |-> NoResult,
         out_file |-> NoResult]

\* the line of index.jsonl for image i: the run it belongs to, the document,
\* doc_type, final_status and result_file of idx_entry
IndexEntry(i, doc) ==
    [run |-> "this", image |-> i, doc_type |-> doc.doc_type,
     final_status |-> doc.pipeline_result.final_status,
     result_file |-> doc.out_file]

\* index_path.open("w") in place of open("a"): a variant of AppendLine
AppendLine_Truncating(index, line) == <<line>>

\* with index_path.open("a") as idx: idx.write(json.dumps(idx_entry) + "\n")
AppendLine(index, line) == Append(index, line)

----------------------------------------------------------------------------
(* Specification of the batch run *)

MaxImages == 2          \* images of the input folder

Images ==
    [prefix : {"INV", "IMG"}, parent : {dt_rechnung, dt_notiz}, readable : BOOLEAN]

ExtractorConfigs ==
    {<<"mistral">>, <<"openai">>, <<"mistral", "mistral">>, <<"mistral", "openai">>}

ValidatorConfigs == {<<>>, <<"mistral">>, <<"openai">>}

InitBatch ==
    /\ \E n \in 0..MaxImages : bt_images \in [1..n -> Images]
    /\ bt_extractors \in ExtractorConfigs
    /\ bt_primary \in DOMAIN bt_extractors
    /\ bt_validators \in ValidatorConfigs
    /\ bt_i = 1
    /\ bt_pc = "route"
    /\ bt_doc = EmptyDict
    /\ bt_calls = <<>> /\ bt_log = <<>> /\ bt_results = <<>> /\ bt_index = <<>>
    /\ bt_raised = ""
    /\ IdleValidation /\ IdleShape /\ IdleRules /\ IdleIo

batchConfig == <<bt_images, bt_extractors, bt_primary, bt_validators>>
othersOfBatch == <<validationVars, shapeVars, rulesVars, ioVars>>

\* if not images: print and return
BtNoImages ==
    /\ bt_pc = "route" /\ bt_images = <<>>
    /\ bt_pc' = "done"
    /\ bt_log' = Append(bt_log, [kind |-> "no_images", image |-> 0])
    /\ UNCHANGED <<batchConfig, bt_i, bt_doc, bt_calls, bt_results, bt_index, bt_raised>>
    /\ UNCHANGED othersOfBatch

\* lines 246-262: the progress line, the document type, schema and rules
BtRoute ==
    /\ bt_pc = "route" /\ bt_i <= Len(bt_images)
    /\ bt_doc' = RoutedDoc(bt_images[bt_i])
    /\ bt_log' = Append(bt_log, [kind |-> "progress", image |-> bt_i])
    /\ bt_pc' = "extract"
    /\ UNCHANGED <<batchConfig, bt_i, bt_calls, bt_results, bt_index, bt_raised>>
    /\ UNCHANGED othersOfBatch

\* lines 268-275: the call of the next extractor returns
BtExtractorReturns ==
    /\ bt_pc = "extract"
    /\ LET e == Len(bt_doc.json_by_extractor) + 1
           schema == SchemaOrEmpty(bt_doc.schema)
       IN  /\ ExtractorRaises(bt_extractors[e], bt_images[bt_i]) = ""
           /\ \E d \in ExtractedData(schema) :
                 bt_doc' = [bt_doc EXCEPT !.json_by_extractor = Append(@, d)]
           /\ bt_calls' = Append(bt_calls, [image |-> bt_i, extractor |-> e])
           /\ bt_pc' = IF e = Len(bt_extractors) THEN "validate" ELSE "extract"
    /\ UNCHANGED <<batchConfig, bt_i, bt_log, bt_results, bt_index, bt_raised>>
    /\ UNCHANGED othersOfBatch

\* lines 268-275: the call of the next extractor raises; nothing in main
\* catches it
BtExtractorRaises ==
    /\ bt_pc = "extract"
    /\ LET e == Len(bt_doc.json_by_extractor) + 1
       IN  /\ ExtractorRaises(bt_extractors[e], bt_images[bt_i]) # ""
           /\ bt_raised' = ExtractorRaises(bt_extractors[e], bt_images[bt_i])
           /\ bt_calls' = Append(bt_calls, [image |-> bt_i, extractor |-> e])
    /\ bt_pc' = "crashed"
    /\ UNCHANGED <<batchConfig, bt_i, bt_doc, bt_log, bt_results, bt_index>>
    /\ UNCHANGED othersOfBatch

\* lines 277-290: schema and rule validation of the primary extraction
BtValidate ==
    /\ bt_pc = "validate"
    /\ LET primary_json == bt_doc.json_by_extractor[bt_primary]
       IN  bt_doc' =
             IF bt_doc.schema = None THEN bt_doc
             ELSE [bt_doc EXCEPT
                     !.schema_result = validate_scheme(primary_json, bt_doc.schema, TRUE),
                     !.rule_result = batch_rule_result(bt_doc.doc_type, primary_json)]
    /\ bt_pc' = "semantic"
    /\ UNCHANGED <<batchConfig, bt_i, bt_calls, bt_log, bt_results, bt_index, bt_raised>>
    /\ UNCHANGED othersOfBatch

\* lines 293-309: the semantic stages return
BtSemanticReturns ==
    /\ bt_pc = "semantic"
    /\ IF bt_validators = <<>>
       THEN bt_doc' = [bt_doc EXCEPT !.sem_result = SemanticDisabled]
       ELSE \E rs \in [DOMAIN bt_validators ->
                          UNION {BatchValidatorReturns(v) : v \in ValidatorIds}] :
               /\ \A i \in DOMAIN rs : rs[i] \in BatchValidatorReturns(bt_validators[i])
               /\ bt_doc' = [bt_doc EXCEPT !.sem_result = merge_semantic_results(rs)]
    /\ bt_pc' = "aggregate"
    /\ UNCHANGED <<batchConfig, bt_i, bt_calls, bt_log, bt_results, bt_index, bt_raised>>
    /\ UNCHANGED othersOfBatch

\* lines 293-298: the request of semantic_validate_openai fails; neither the
\* validator nor main catches it
BtSemanticRaises ==
    /\ bt_pc = "semantic"
    /\ \E i \in DOMAIN bt_validators : bt_validators[i] = "openai"
    /\ bt_raised' = "APIError"
    /\ bt_pc' = "crashed"
    /\ UNCHANGED <<batchConfig, bt_i, bt_doc, bt_calls, bt_log, bt_results, bt_index>>
    /\ UNCHANGED othersOfBatch

\* the iteration after save_result_to_file has returned out_file
SavedDoc(doc, pipeline_result, out_file) ==
    [doc EXCEPT !.pipeline_result = pipeline_result, !.out_file = out_file]

\* lines 311-353: cross-model check, aggregation, result file
BtAggregateSave ==
    /\ bt_pc = "aggregate"
    /\ LET cross == batch_cross_result(bt_doc.json_by_extractor, bt_primary,
                                       bt_doc.schema)
           pipeline_result == aggregate_validation(bt_doc.schema_result,
                                  bt_doc.rule_result, bt_doc.sem_result, cross)
       IN  /\ bt_results' = Append(bt_results,
                                   [image |-> bt_i, path |-> bt_i,
                                    result |-> pipeline_result])
           /\ bt_doc' = SavedDoc(bt_doc, pipeline_result, bt_i)
    /\ bt_pc' = "index"
    /\ UNCHANGED <<batchConfig, bt_i, bt_calls, bt_log, bt_index, bt_raised>>
    /\ UNCHANGED othersOfBatch

\* lines 355-367: the line of the document is appended to index.jsonl
BtAppendIndex ==
    /\ bt_pc = "index"
    /\ bt_index' = AppendLine(bt_index, IndexEntry(bt_i, bt_doc))
    /\ bt_i' = bt_i + 1
    /\ bt_pc' = "route"
    /\ UNCHANGED <<batchConfig, bt_doc, bt_calls, bt_log, bt_results, bt_raised>>
    /\ UNCHANGED othersOfBatch

\* lines 369-373: the manifest is closed after the last image
BtFinish ==
    /\ bt_pc = "route" /\ bt_images # <<>> /\ bt_i > Len(bt_images)
    /\ bt_pc' = "done"
    /\ bt_log' = Append(bt_log, [kind |-> "finished", image |-> 0])
    /\ UNCHANGED <<batchConfig, bt_i, bt_doc, bt_calls, bt_results, bt_index, bt_raised>>
    /\ UNCHANGED othersOfBatch

NextBatch ==
    \/ BtNoImages \/ BtRoute \/ BtExtractorReturns \/ BtExtractorRaises
    \/ BtValidate \/ BtSemanticReturns \/ BtSemanticRaises \/ BtAggregateSave
    \/ BtAppendIndex \/ BtFinish

SpecBatch == InitBatch /\ [][NextBatch]_vars

\* a batch run into an output directory that may hold the index of an
\* earlier run (index_path.touch(exist_ok=True) keeps it); the images lie in
\* one folder and can be read
IndexImages == {img \in Images : img.parent = dt_notiz /\ img.readable}

EarlierLine ==
    [run |-> "earlier", image |-> 1, doc_type |-> dt_rechnung,
     final_status |-> "valid", result_file |-> 0]

InitIndex ==
    /\ \E n \in 0..MaxImages : bt_images \in [1..n -> IndexImages]
    /\ bt_extractors \in ExtractorConfigs
    /\ bt_primary \in DOMAIN bt_extractors
    /\ bt_validators \in ValidatorConfigs
    /\ bt_i = 1
    /\ bt_pc = "route"
    /\ bt_doc = EmptyDict
    /\ bt_calls = <<>> /\ bt_log = <<>> /\ bt_results = <<>>
    /\ bt_index \in {<<>>, <<EarlierLine>>}
    /\ bt_raised = ""
    /\ IdleValidation /\ IdleShape /\ IdleRules /\ IdleIo

SpecIndex == InitIndex /\ [][NextBatch]_vars

\* main has returned or an exception has ended it
BatchEnded == bt_pc \in {"done", "crashed"}

----------------------------------------------------------------------------
(* Claims about the batch run (SpecBatch) *)

\* a result file has been written for image i
HasResult(i) == \E n \in DOMAIN bt_results : bt_results[n].image = i

\* a line that names a reason for skipping image i has been printed
HasLoggedSkip(i) ==
    \E n \in DOMAIN bt_log : bt_log[n].kind = "skip" /\ bt_log[n].image = i

\* an extractor has been called for image i
HasExtraction(i) == \E n \in DOMAIN bt_calls : bt_calls[n].image = i

\* the type of image i has no schema in the registry
Unregistered(i) == SchemaOrNone(detect_doc_type(bt_images[i])) = None

\* C19: a failure while one document is processed (an extractor or a
\* semantic validator raising, an unreadable image) never ends the run:
\* main does not crash, and once the run has ended every image has a
\* persisted aggregated result or a logged skip reason.
C19_EveryDocumentAccountedFor ==
    /\ bt_pc # "crashed"
    /\ BatchEnded =>
          \A i \in DOMAIN bt_images : HasResult(i) \/ HasLoggedSkip(i)

\* C20: a document whose type is not registered is aborted: no extractor is
\* called for it, it is not validated and no aggregated result is written
\* for it, and the run goes on with the next document.
C20_UnknownTypeAbortsDocument ==
    \A i \in DOMAIN bt_images :
        Unregistered(i) =>
            /\ ~HasExtraction(i)
            /\ ~HasResult(i)
            /\ bt_i = i => bt_pc \in {"route", "done"}

\* the lines of index.jsonl this run has added for image i
LinesOf(i) ==
    {n \in DOMAIN bt_index : bt_index[n].run = "this" /\ bt_index[n].image = i}

\* line n names a result file that has been written for its image
NamesWrittenFile(n) ==
    \E m \in DOMAIN bt_results :
        /\ bt_results[m].image = bt_index[n].image
        /\ bt_results[m].path = bt_index[n].result_file

\* one line per processed document, written after its result file
C23_OneLinePerDocument ==
    /\ \A n \in DOMAIN bt_index :
          bt_index[n].run = "this" => NamesWrittenFile(n)
    /\ \A i \in DOMAIN bt_images :
          Cardinality(LinesOf(i)) = IF i < bt_i THEN 1 ELSE 0
    /\ bt_pc = "done" =>
          Cardinality({n \in DOMAIN bt_index : bt_index[n].run = "this"})
              = Len(bt_images)

\* a step leaves the lines of index.jsonl as they are and adds at most one
C23_LinesKept ==
    /\ Len(bt_index') \in {Len(bt_index), Len(bt_index) + 1}
    /\ \A n \in DOMAIN bt_index : bt_index'[n] = bt_index[n]

\* C23: the run index is append-only with one line per processed document:
\* a step never changes or removes a line and adds at most one; every line
\* of the run names a result file already written for its image; an image
\* has exactly one line once its iteration is over and none before; after
\* a completed run the lines added are as many as the images.
C23_IndexAppendOnly ==
    []C23_OneLinePerDocument /\ [][C23_LinesKept]_vars

\* a completed run over two images has added two lines after the line of
\* an earlier run
C23_Witness ==
    /\ bt_pc = "done" /\ Len(bt_images) = 2
    /\ Len(bt_index) = 3 /\ bt_index[1] = EarlierLine

----------------------------------------------------------------------------
(* framework/pipeline/aggregator.py: save_result_to_file                    *)
(*                                                                         *)
(* A result is its document (name and folder) and a payload that json can  *)
(* or cannot serialize.  A path of the output directory is the pair of the *)
(* sanitised document name and the second of the time stamp: the           *)
(* directory and the ".json" suffix are the same for every call.  The text *)
(* json.dump writes is a sequence of chunks; a chunk is in the file as     *)
(* soon as it is written.                                                  *)

\* c.isalnum() or c in ("-", "_", ".")
IsSafeChar(c) ==
    \/ c \in LowerLetters \/ c \in UpperLetters \/ IsDigit(c)
    \/ c \in {"-", "_", "."}

\* "".join(c for c in doc_name if c.isalnum() or c in ("-", "_", "."))
RECURSIVE safe_doc_name(_)
safe_doc_name(doc_name) ==
    IF doc_name = <<>> THEN <<>>
    ELSE (IF IsSafeChar(Head(doc_name)) THEN <<Head(doc_name)>> ELSE <<>>)
         \o safe_doc_name(Tail(doc_name))

\* Path(output_dir) / f"{safe_doc_name}_{timestamp}.json"
DefaultPath(result, now) == <<safe_doc_name(result.document.name), now>>

\* the chunks json.dump(result, f, indent=2) writes, in order: the opening
\* brace, the document, the payload, the closing brace; a chunk is the part
\* of the text and the result it is the text of
JsonText(result) ==
    [i \in 1..4 |->
        [part |-> <<"{", "document", "payload", "}">>[i], of |-> result]]

\* json can encode the chunk: anything but the value of an unserializable
\* payload (the encoder raises TypeError when it reaches it)
Encodable(chunk) ==
    ~(chunk.part = "payload" /\ chunk.of.payload = "unserializable")

\* open("w"): the file is created, or truncated if it exists
OpenForWrite(files, path) ==
    [p \in DOMAIN files \cup {path} |-> IF p = path THEN <<>> ELSE files[p]]

\* f.write(chunk)
WriteChunk(files, path, chunk) ==
    [files EXCEPT ![path] = Append(@, chunk)]

----------------------------------------------------------------------------
(* Specification of save_result_to_file: calls made one after another into *)
(* one output directory while the clock advances                           *)

MaxSaves == 2           \* calls of save_result_to_file
MaxClock == 1           \* seconds the clock advances

SaveDocNames == {<<"a", "b">>, <<"a", " ", "b">>, <<"c", ".", "A", "1">>}

SaveResults ==
    [document : [name : SaveDocNames, path : {"in/x", "in/y"}],
     payload : {"plain", "unserializable"}]

\* the filename argument: None (the default) or a name
FilenameArgs == {None, PyStr(<<"r", ".", "j", "s", "o", "n">>)}

InitSave ==
    /\ sv_clock = 0
    /\ sv_files = <<>>
    /\ sv_pc = "idle"
    /\ sv_call = NoResult
    /\ sv_returns = <<>>
    /\ IdleValidation /\ IdleShape /\ IdleRules /\ IdleBatch
    /\ IdleRequired /\ IdleMistral

othersOfSave ==
    <<validationVars, shapeVars, rulesVars, batchVars, requiredVars, mistralVars>>

\* the record of a call that has ended: its arguments, the value returned
\* and the exception raised ("" if it returned)
EndedCall(result, filename, ret, raised) ==
    [result |-> result, filename |-> filename, ret |-> ret, raised |-> raised]

\* lines 190-197 with a filename: the block that writes belongs to
\* "if filename is None", so the function ends without a return statement
SvCallNamed ==
    /\ sv_pc = "idle" /\ Len(sv_returns) < MaxSaves
    /\ \E result \in SaveResults, filename \in FilenameArgs \ {None} :
          sv_returns' = Append(sv_returns, EndedCall(result, filename, None, ""))
    /\ UNCHANGED <<sv_clock, sv_files, sv_pc, sv_call, othersOfSave>>

\* lines 190-199 without a filename: the name is made from the document
\* name and the time of the call
SvCallDefault ==
    /\ sv_pc = "idle" /\ Len(sv_returns) < MaxSaves
    /\ \E result \in SaveResults :
          sv_call' = [result |-> result,
                      path |-> DefaultPath(result, sv_clock),
                      pos |-> 0]
    /\ sv_pc' = "open"
    /\ UNCHANGED <<sv_clock, sv_files, sv_returns, othersOfSave>>

\* line 201: output_path.open("w")
SvOpen ==
    /\ sv_pc = "open"
    /\ sv_files' = OpenForWrite(sv_files, sv_call.path)
    /\ sv_pc' = "dump"
    /\ UNCHANGED <<sv_clock, sv_call, sv_returns, othersOfSave>>

\* line 202: json.dump writes the next chunk
SvWrite ==
    /\ sv_pc = "dump" /\ sv_call.pos < Len(JsonText(sv_call.result))
    /\ Encodable(JsonText(sv_call.result)[sv_call.pos + 1])
    /\ sv_files' = WriteChunk(sv_files, sv_call.path,
                              JsonText(sv_call.result)[sv_call.pos + 1])
    /\ sv_call' = [sv_call EXCEPT !.pos = @ + 1]
    /\ UNCHANGED <<sv_clock, sv_pc, sv_returns, othersOfSave>>

\* line 202: the encoder raises; the with statement closes the file
SvTypeError ==
    /\ sv_pc = "dump" /\ sv_call.pos < Len(JsonText(sv_call.result))
    /\ ~Encodable(JsonText(sv_call.result)[sv_call.pos + 1])
    /\ sv_returns' = Append(sv_returns,
                            EndedCall(sv_call.result, None, None, "TypeError"))
    /\ sv_pc' = "idle" /\ sv_call' = NoResult
    /\ UNCHANGED <<sv_clock, sv_files, othersOfSave>>

\* lines 201-202: the save is cancelled while the file is open
SvInterrupt ==
    /\ sv_pc = "dump" /\ sv_call.pos < Len(JsonText(sv_call.result))
    /\ sv_returns' = Append(sv_returns,
                            EndedCall(sv_call.result, None, None,
                                      "KeyboardInterrupt"))
    /\ sv_pc' = "idle" /\ sv_call' = NoResult
    /\ UNCHANGED <<sv_clock, sv_files, othersOfSave>>

\* line 204: return str(output_path)
SvReturn ==
    /\ sv_pc = "dump" /\ sv_call.pos = Len(JsonText(sv_call.result))
    /\ sv_returns' = Append(sv_returns,
                            EndedCall(sv_call.result, None,
                                      PyStr(sv_call.path), ""))
    /\ sv_pc' = "idle" /\ sv_call' = NoResult
    /\ UNCHANGED <<sv_clock, sv_files, othersOfSave>>

\* a second passes
SvTick ==
    /\ sv_clock < MaxClock
    /\ sv_clock' = sv_clock + 1
    /\ UNCHANGED <<sv_files, sv_pc, sv_call, sv_returns, othersOfSave>>

NextSave ==
    \/ SvCallNamed \/ SvCallDefault \/ SvOpen \/ SvWrite \/ SvTypeError
    \/ SvInterrupt \/ SvReturn \/ SvTick

SpecSave == InitSave /\ [][NextSave]_vars

----------------------------------------------------------------------------
(* Claims about save_result_to_file (SpecSave) *)

\* the content is the whole text of some result
IsWholeResult(content) ==
    \E r \in SaveResults :
        /\ \A i \in DOMAIN JsonText(r) : Encodable(JsonText(r)[i])
        /\ content = JsonText(r)

\* C21: the result file is written atomically: a file of the output
\* directory always holds the whole text of a result, also while a save
\* runs and after a save was cancelled or failed during serialization.
C21_NoPartialFile ==
    \A p \in DOMAIN sv_files : IsWholeResult(sv_files[p])

\* call n ended by returning the path of a file it named by default
SavedByDefault(n) ==
    /\ sv_returns[n].filename = None
    /\ sv_returns[n].raised = ""

\* C22: result files are never overwritten: any two saves that take the
\* default name are written to different paths.
C22_DefaultNamesDistinct ==
    \A m, n \in DOMAIN sv_returns :
        (m # n /\ SavedByDefault(m) /\ SavedByDefault(n)) =>
            sv_returns[m].ret # sv_returns[n].ret

\* C24: a call that returns has stored the result in the output directory
\* and returns the path of the file, with a filename given or omitted.
C24_ReturnsPathOfStoredFile ==
    \A n \in DOMAIN sv_returns :
        sv_returns[n].raised = "" =>
            /\ sv_returns[n].ret # None
            /\ sv_returns[n].ret.v \in DOMAIN sv_files

----------------------------------------------------------------------------
(* framework/schemes/registry.py and the schemas of the five document      *)
(* types; framework/validation/rule_validation.py: validate_rules           *)

dt_bescheid == <<"b", "e", "s", "c", "h", "e", "i", "d">>
dt_meldebescheinigung ==
    <<"m", "e", "l", "d", "e", "b", "e", "s", "c", "h", "e", "i", "n", "i",
      "g", "u", "n", "g">>

\* a schema from its keys in order, their types and the keys whose
\* FieldSpec has required False
SchemaFrom(keys, dtypes, optional) ==
    [i \in DOMAIN keys |->
        [key |-> keys[i], required |-> keys[i] \notin optional,
         dtype |-> dtypes[i]]]

BescheidSchema ==
    SchemaFrom(<<"typ", "behoerde", "adressat", "aktenzeichen", "datum",
                 "grund", "betrag", "zahlungsfrist">>,
               <<"str", "str", "str", "str", "str", "str", "float", "str">>,
               {"adressat"})

MeldebescheinigungSchema ==
    SchemaFrom(<<"typ", "behoerde", "name", "geburtsdatum", "anschrift_aktuell",
                 "einzugsdatum", "anschrift_vorher", "datum", "siegel">>,
               <<"str", "str", "str", "str", "str", "str", "str", "str", "bool">>,
               {"anschrift_vorher", "siegel"})

ReisekostenSchema ==
    SchemaFrom(<<"typ", "mitarbeiter", "zielort", "start", "ende",
                 "kosten_details", "erstattungsbetrag">>,
               <<"str", "str", "str", "str", "str", "dict", "float">>,
               {})

UrlaubsantragSchema ==
    SchemaFrom(<<"typ", "personalnummer", "name", "abteilung", "art", "von",
                 "bis", "tage", "datum", "unterschrift_arbeitnehmer">>,
               <<"str", "str", "str", "str", "str", "str", "str", "int", "str",
                 "str">>,
               {"datum", "unterschrift_arbeitnehmer"})

BescheidCoreKeys ==
    <<"behoerde", "aktenzeichen", "datum", "grund", "betrag", "zahlungsfrist">>

MeldebescheinigungCoreKeys ==
    <<"behoerde", "name", "geburtsdatum", "anschrift_aktuell", "einzugsdatum",
      "datum">>

UrlaubsantragCoreKeys ==
    <<"personalnummer", "name", "abteilung", "art", "von", "bis", "tage">>

\* _SCHEMA_REGISTRY[dt]() for a stripped, lower-cased dt; None stands for
\* the ValueError of a type that is not registered
RegisteredSchema(dt) ==
    CASE dt = dt_urlaubsantrag -> UrlaubsantragSchema
      [] dt = dt_rechnung -> RechnungSchema
      [] dt = dt_reisekosten -> ReisekostenSchema
      [] dt = dt_bescheid -> BescheidSchema
      [] dt = dt_meldebescheinigung -> MeldebescheinigungSchema
      [] OTHER -> None

get_schema_for_type(doc_type) == RegisteredSchema(StripLower(doc_type))

\* the keys _rule_required_nonempty_core of the type loops over
CoreKeysOf(dt) ==
    CASE dt = dt_urlaubsantrag -> UrlaubsantragCoreKeys
      [] dt = dt_rechnung -> RechnungCoreKeys
      [] dt = dt_reisekosten -> ReisekostenCoreKeys
      [] dt = dt_bescheid -> BescheidCoreKeys
      [] dt = dt_meldebescheinigung -> MeldebescheinigungCoreKeys
      [] OTHER -> <<>>

\* bool(val) is False
PyFalsy(val) ==
    \/ IsEmptyValue(val)
    \/ val.t \in {"int", "float"} /\ val.v = 0
    \/ val.t = "bool" /\ ~val.v

\* data.get("typ") or ""
TypOrEmpty(d) ==
    IF PyFalsy(GetOrNone(d, "typ")) THEN PyStr(<<>>) ELSE d["typ"]

\* the dict get_schema() of a type returns: field name -> FieldSpec
SchemaDict(schema) == [k \in SpecKeys(schema) |-> SpecOf(schema, k)]

\* schema.get("fields") or {} and schema.get("rules") or []: a schema of
\* the registry has such a section only if a field has that name
SchemaFields(schema) == Get(SchemaDict(schema), "fields", EmptyDict)
SchemaRules(schema) == Get(SchemaDict(schema), "rules", <<>>)

\* _required_fields_from_schema: the keys of the section "fields" whose meta
\* is a dict with required True (in the order sorted() gives them)
required_fields_from_schema(schema) ==
    sorted({k \in DOMAIN SchemaFields(schema) :
               Get(SchemaFields(schema)[k], "required", None) = TRUE})

\* _validate_required_fields
validate_required_fields(d, required) ==
    Flatten([i \in DOMAIN required |->
        IF required[i] \notin DOMAIN d \/ IsEmptyValue(d[required[i]])
        THEN <<Violation(required[i], "required", "error")>> ELSE <<>>])

\* the keys of the section "fields" whose meta has type "date"
date_fields_from_schema(schema) ==
    sorted({k \in DOMAIN SchemaFields(schema) :
               Get(SchemaFields(schema)[k], "type", None) = "date"})

\* _validate_date_fields
validate_date_fields(d, dates) ==
    Flatten([i \in DOMAIN dates |->
        IF ~IsEmptyValue(GetOrNone(d, dates[i]))
           /\ parse_date(GetOrNone(d, dates[i])) = NoDate
        THEN <<Violation(dates[i], "date_format", "error")>> ELSE <<>>])

\* _apply_schema_rules: the loop over the entries of the section "rules";
\* what an entry adds (lines 97-209) is left out, no schema of the
\* registry has an entry
apply_schema_rules(d, rules) == Flatten([i \in DOMAIN rules |-> <<>>])

\* the result for a record that cannot be routed
DocTypeError(rule) ==
    [is_valid |-> FALSE, violations |-> <<Violation("typ", rule, "error")>>]

\* lines 251-261 of validate_rules
GenericRuleResult(d, schema) ==
    ViolationResult(
        validate_required_fields(d, required_fields_from_schema(schema))
        \o validate_date_fields(d, date_fields_from_schema(schema))
        \o apply_schema_rules(d, SchemaRules(schema)))

\* lines 222-249 of validate_rules for the stripped, lower-cased doc_type
RoutedRuleResult(d, doc_type) ==
    IF doc_type = <<>> THEN DocTypeError("missing_doc_type")
    ELSE IF get_schema_for_type(doc_type) = None
         THEN DocTypeError("unknown_doc_type")
         ELSE GenericRuleResult(d, get_schema_for_type(doc_type))

\* validate_rules(data); a 'typ' that is neither false nor a string has no
\* strip()
validate_rules(d) ==
    IF TypOrEmpty(d).t # "str" THEN Raised("AttributeError")
    ELSE Returned(RoutedRuleResult(d, StripLower(TypOrEmpty(d).v)))

----------------------------------------------------------------------------
(* Specification of the required-field checks: validate_scheme, the core   *)
(* rule of the type and validate_rules on a record of a document type in   *)
(* which some fields are missing or empty                                  *)

MaxDefects == 2         \* fields of a record that are missing or empty

RequiredDocTypes ==
    {dt_urlaubsantrag, dt_rechnung, dt_reisekosten, dt_bescheid,
     dt_meldebescheinigung, dt_notiz}

\* the keys of a record of the type
RecordKeys(dt) ==
    IF RegisteredSchema(dt) = None THEN {"typ"}
    ELSE SpecKeys(RegisteredSchema(dt))

\* a value of the declared type that is not empty
FilledValue(dtype) ==
    CASE dtype = "str" -> txt
      [] dtype = "int" -> PyInt(4)
      [] dtype = "float" -> PyFloat(100)
      [] dtype = "bool" -> PyBool(TRUE)
      [] dtype = "list" -> PyList(<<PyInt(3)>>)
      [] dtype = "dict" -> PyDict([k \in {"transport"} |-> PyFloat(100)])

\* the value of key k in a complete record of the type
CompleteValue(dt, k) ==
    IF k = "typ" THEN PyStr(dt)
    ELSE FilledValue(SpecOf(RegisteredSchema(dt), k).dtype)

\* what a field holds in place of its value; Absent: the key is missing
Absent == [t |-> "absent", v |-> 0]
Defects ==
    {Absent, None, PyStr(<<>>), PyList(<<>>), PyDict(EmptyDict), PyStr(<<" ">>)}

\* the complete record of the type with the fields of defect changed
DefectiveRecord(dt, defect) ==
    [k \in {kk \in RecordKeys(dt) :
               kk \notin DOMAIN defect \/ defect[kk] # Absent} |->
        IF k \in DOMAIN defect THEN defect[k] ELSE CompleteValue(dt, k)]

InitRequired ==
    /\ rq_doc_type \in RequiredDocTypes
    /\ \E D \in SUBSET RecordKeys(rq_doc_type) :
          /\ Cardinality(D) <= MaxDefects
          /\ \E defect \in [D -> Defects] :
                rq_data = DefectiveRecord(rq_doc_type, defect)
    /\ rq_scheme = NoResult /\ rq_core = NoResult /\ rq_rules = NoResult
    /\ IdleValidation /\ IdleShape /\ IdleRules /\ IdleBatch
    /\ IdleSave /\ IdleMistral

othersOfRequired ==
    <<validationVars, shapeVars, rulesVars, batchVars, saveVars, mistralVars>>

\* validate_scheme(data, schema) with the schema of the type
RqValidateScheme ==
    /\ rq_scheme = NoResult /\ RegisteredSchema(rq_doc_type) # None
    /\ rq_scheme' = validate_scheme(rq_data, RegisteredSchema(rq_doc_type), TRUE)
    /\ UNCHANGED <<rq_doc_type, rq_data, rq_core, rq_rules, othersOfRequired>>

\* _rule_required_nonempty_core(data) of the type
RqCoreRule ==
    /\ rq_core = NoResult /\ RegisteredSchema(rq_doc_type) # None
    /\ rq_core' = [violations |->
                     rule_required_nonempty_core(rq_data, CoreKeysOf(rq_doc_type))]
    /\ UNCHANGED <<rq_doc_type, rq_data, rq_scheme, rq_rules, othersOfRequired>>

\* validate_rules(data)
RqValidateRules ==
    /\ rq_rules = NoResult
    /\ rq_rules' = validate_rules(rq_data)
    /\ UNCHANGED <<rq_doc_type, rq_data, rq_scheme, rq_core, othersOfRequired>>

NextRequired == RqValidateScheme \/ RqCoreRule \/ RqValidateRules

SpecRequired == InitRequired /\ [][NextRequired]_vars

----------------------------------------------------------------------------
(* Claims about the required-field checks (SpecRequired) *)

\* field k is missing or empty in the record
MissingOrEmpty(k) == k \notin DOMAIN rq_data \/ IsEmptyValue(rq_data[k])

\* the violations contain one of field k with the rule and severity error
Flags(violations, k, rules) ==
    \E i \in DOMAIN violations :
        /\ violations[i].field = k
        /\ violations[i].rule \in rules
        /\ violations[i].severity = "error"

\* the type validate_rules routes the record to
RoutedType == StripLower(TypOrEmpty(rq_data).v)

\* C25: validate_rules routes on data['typ']: for a registered type every
\* field the schema requires that is missing or empty in the record yields
\* an error violation with rule 'required' and is_valid false; a missing or
\* unregistered 'typ' yields a single error violation (missing_doc_type or
\* unknown_doc_type) with is_valid false.
C25_DispatcherChecksRequired ==
    rq_rules # NoResult =>
        /\ rq_rules.raised = ""
        /\ IF RegisteredSchema(RoutedType) # None
           THEN \A i \in DOMAIN RegisteredSchema(RoutedType) :
                   (/\ RegisteredSchema(RoutedType)[i].required
                    /\ MissingOrEmpty(RegisteredSchema(RoutedType)[i].key)) =>
                       /\ Flags(rq_rules.value.violations,
                                RegisteredSchema(RoutedType)[i].key, {"required"})
                       /\ ~rq_rules.value.is_valid
           ELSE /\ rq_rules.value =
                      DocTypeError(IF RoutedType = <<>> THEN "missing_doc_type"
                                   ELSE "unknown_doc_type")

\* validate_scheme and the core rule have both returned
BothReturned == rq_scheme # NoResult /\ rq_core # NoResult

\* C29: schema validation and the required-core rule of a registered type
\* agree on every record: when validate_scheme reports no error the core
\* rule returns no violation, and every field the core rule flags is
\* flagged by validate_scheme with an error of rule missing_key or
\* required_field_empty.
C29_SchemeCoversCoreRule ==
    BothReturned =>
        /\ rq_scheme.is_valid => rq_core.violations = <<>>
        /\ \A i \in DOMAIN rq_core.violations :
              Flags(rq_scheme.violations, rq_core.violations[i].field,
                    {"missing_key", "required_field_empty"})

\* the core rule flags a missing field and a field holding an empty list
C29_Witness ==
    /\ BothReturned
    /\ Len(rq_core.violations) = 2
    /\ \E i, j \in DOMAIN rq_core.violations :
          /\ rq_core.violations[i].field \notin DOMAIN rq_data
          /\ rq_core.violations[j].field \in DOMAIN rq_data
          /\ rq_data[rq_core.violations[j].field] = PyList(<<>>)

----------------------------------------------------------------------------
(* framework/validation/semantic_validation.py: semantic_validate_mistral   *)
(*                                                                         *)
(* The content of a model response is classed by what _extract_json_string *)
(* and json.loads make of it: the text of a JSON object ("object", with    *)
(* the object as answer), other JSON such as a list ("other"), text that   *)
(* is no JSON ("garbage"), the empty string ("empty") and None ("none").   *)
(* raw_content is the sequence of the contents it is concatenated from.    *)

Content(kind, answer) == [kind |-> kind, answer |-> answer]

\* raw_content = "" after a call that raised
EmptyContent == Content("empty", EmptyDict)

\* _parse(raw): json.loads raises on text that is no JSON, parsed.get on
\* JSON that is no object; status and issues default to "uncertain" and []
parse(raw) ==
    CASE raw.kind = "object" ->
            Returned([parsed |-> PyDict(raw.answer),
                      status |-> Get(raw.answer, "status", "uncertain"),
                      issues |-> IF PyFalsy(Get(raw.answer, "issues", None))
                                 THEN <<>> ELSE raw.answer["issues"].v])
      [] raw.kind = "other" -> Raised("AttributeError")
      [] OTHER -> Raised("JSONDecodeError")

\* lines 208-210: if not raw_content: raise ValueError; _parse(raw_content)
FirstAttempt(raw) ==
    IF raw.kind \in {"empty", "none"} THEN Raised("ValueError") ELSE parse(raw)

\* variant: the retry is made whatever retry_on_parse_error is
RetryWanted_Always(retry) == TRUE

\* retry_on_parse_error and retry_on_parse_error > 0
RetryWanted(retry) == retry # 0 /\ retry > 0

\* line 218: raw_content + "\n\n---RETRY---\n\n" + retry_raw; None cannot
\* be concatenated
Concatenated(raw_content, retry_raw) ==
    IF raw_content[1].kind = "none" \/ retry_raw.kind = "none"
    THEN Raised("TypeError")
    ELSE Returned(Append(raw_content, retry_raw))

\* lines 218-219: the concatenation, then _parse(retry_raw)
RetryAttempt(raw_content, retry_raw) ==
    IF Concatenated(raw_content, retry_raw).raised # ""
    THEN Concatenated(raw_content, retry_raw)
    ELSE parse(retry_raw)

\* raw_content after the retry has returned retry_raw
RawAfterRetry(raw_content, retry_raw) ==
    IF Concatenated(raw_content, retry_raw).raised # "" THEN raw_content
    ELSE Concatenated(raw_content, retry_raw).value

\* lines 232-241 after an attempt with this outcome: the values of _parse,
\* or parse_error without issues when the attempt raised
StageResult(outcome, raw_content) ==
    IF outcome.raised = ""
    THEN [status |-> outcome.value.status, issues |-> outcome.value.issues,
          raw_response |-> raw_content, provider |-> "mistral",
          parsed |-> outcome.value.parsed]
    ELSE [status |-> "parse_error", issues |-> <<>>,
          raw_response |-> raw_content, provider |-> "mistral",
          parsed |-> None]

----------------------------------------------------------------------------
(* Specification of semantic_validate_mistral: one invocation, the model   *)
(* answering or failing at each call                                       *)

MaxRetry == 2           \* largest value of retry_on_parse_error

MistralIssue == [field |-> "datum", severity |-> "error"]

\* the JSON objects a response may hold
Answers ==
    {EmptyDict,
     [status |-> "valid", issues |-> PyList(<<>>)],
     [status |-> "invalid", issues |-> PyList(<<MistralIssue>>)],
     [status |-> "uncertain", issues |-> None]}

Contents ==
    {Content("object", a) : a \in Answers}
    \cup {Content(k, EmptyDict) : k \in {"other", "garbage", "empty", "none"}}

\* a model call made: whether it raised, and the content it returned
CallMade(raised, content) == [raised |-> raised, content |-> content]

InitMistral ==
    /\ sm_retry \in -1..MaxRetry
    /\ sm_pc = "first"
    /\ sm_calls = <<>>
    /\ sm_raw = <<>>
    /\ sm_result = NoResult
    /\ IdleValidation /\ IdleShape /\ IdleRules /\ IdleBatch
    /\ IdleSave /\ IdleRequired

othersOfMistral ==
    <<validationVars, shapeVars, rulesVars, batchVars, saveVars, requiredVars>>

\* lines 192-193: the first call returns
SmFirstReturns ==
    /\ sm_pc = "first"
    /\ \E c \in Contents :
          /\ sm_calls' = <<CallMade(FALSE, c)>>
          /\ sm_raw' = <<c>>
    /\ sm_pc' = "parse"
    /\ UNCHANGED <<sm_retry, sm_result, othersOfMistral>>

\* lines 194-197: the first call raises
SmFirstRaises ==
    /\ sm_pc = "first"
    /\ sm_calls' = <<CallMade(TRUE, EmptyContent)>>
    /\ sm_raw' = <<EmptyContent>>
    /\ sm_pc' = "parse"
    /\ UNCHANGED <<sm_retry, sm_result, othersOfMistral>>

\* lines 207-210 and 232-241: the first response parses
SmParsed ==
    /\ sm_pc = "parse"
    /\ FirstAttempt(sm_raw[1]).raised = ""
    /\ sm_result' = Returned(StageResult(FirstAttempt(sm_raw[1]), sm_raw))
    /\ sm_pc' = "done"
    /\ UNCHANGED <<sm_retry, sm_calls, sm_raw, othersOfMistral>>

\* lines 211-214: it does not parse and a retry is wanted
SmRetry ==
    /\ sm_pc = "parse"
    /\ FirstAttempt(sm_raw[1]).raised # ""
    /\ RetryWanted(sm_retry)
    /\ sm_pc' = "retry"
    /\ UNCHANGED <<sm_retry, sm_calls, sm_raw, sm_result, othersOfMistral>>

\* lines 226-241: it does not parse and no retry is wanted
SmGiveUp ==
    /\ sm_pc = "parse"
    /\ FirstAttempt(sm_raw[1]).raised # ""
    /\ ~RetryWanted(sm_retry)
    /\ sm_result' = Returned(StageResult(FirstAttempt(sm_raw[1]), sm_raw))
    /\ sm_pc' = "done"
    /\ UNCHANGED <<sm_retry, sm_calls, sm_raw, othersOfMistral>>

\* lines 215-225 and 232-241: the retry returns
SmRetryReturns ==
    /\ sm_pc = "retry"
    /\ \E c \in Contents :
          /\ sm_calls' = Append(sm_calls, CallMade(FALSE, c))
          /\ sm_raw' = RawAfterRetry(sm_raw, c)
          /\ sm_result' = Returned(StageResult(RetryAttempt(sm_raw, c),
                                               RawAfterRetry(sm_raw, c)))
    /\ sm_pc' = "done"
    /\ UNCHANGED <<sm_retry, othersOfMistral>>

\* lines 216, 220-225 and 232-241: the retry raises
SmRetryRaises ==
    /\ sm_pc = "retry"
    /\ sm_calls' = Append(sm_calls, CallMade(TRUE, EmptyContent))
    /\ sm_result' = Returned(StageResult(Raised("Exception"), sm_raw))
    /\ sm_pc' = "done"
    /\ UNCHANGED <<sm_retry, sm_raw, othersOfMistral>>

NextMistral ==
    \/ SmFirstReturns \/ SmFirstRaises \/ SmParsed \/ SmRetry \/ SmGiveUp
    \/ SmRetryReturns \/ SmRetryRaises

SpecMistral == InitMistral /\ [][NextMistral]_vars

----------------------------------------------------------------------------
(* Claims about semantic_validate_mistral (SpecMistral) *)

\* call n returned content that parses as the expected object
YieldsParsable(n) ==
    ~sm_calls[n].raised /\ sm_calls[n].content.kind = "object"

\* C26: semantic_validate_mistral never raises because a model call failed
\* or a response could not be parsed; it makes at most two model calls,
\* and exactly one when retry_on_parse_error is 0 or the first response
\* parses; when no attempt yields parsable output it returns the status
\* parse_error and no issues.
C26_NoRaiseAtMostOneRetry ==
    /\ Len(sm_calls) <= 2
    /\ sm_pc = "done" =>
          /\ sm_result.raised = ""
          /\ Len(sm_calls) >= 1
          /\ (sm_retry = 0 \/ YieldsParsable(1)) => Len(sm_calls) = 1
          /\ (\A n \in DOMAIN sm_calls : ~YieldsParsable(n)) =>
                /\ sm_result.value.status = "parse_error"
                /\ sm_result.value.issues = <<>>

\* with retry_on_parse_error = 2 the first call failed, the one retry gave
\* text that is no JSON, and the result is parse_error
C26_Witness ==
    /\ sm_pc = "done" /\ sm_retry = 2
    /\ Len(sm_calls) = 2
    /\ sm_calls[1].raised /\ sm_calls[2].content.kind = "garbage"
    /\ sm_result.value.status = "parse_error"

----------------------------------------------------------------------------
(* Specification of the two tallies of semantic issues: the stage results   *)
(* are merged and the merged result is handed to aggregate_validation, as   *)
(* the batch run does                                                       *)

\* severities as a stage may spell them: absent, null, empty, another case
TallySeverities == {JsonNull, "", "ERROR", "Warning", "error", "warning", "info"}

TallyIssues ==
    {IssueBase} \cup {("severity" :> sev) @@ IssueBase : sev \in TallySeverities}

TallyStageResults ==
    {("issues" :> PyList(l)) @@ ("status" :> st) @@ ProfileOf("mistral") :
        st \in {"valid", "invalid"}, l \in SeqsUpTo(TallyIssues, MaxIssues)}

NoViolations == ViolationResult(<<>>)

InitTally ==
    /\ \E n \in 1..MaxStages : stage_results \in [1..n -> TallyStageResults]
    /\ merged = NoResult
    /\ schema_in = NoViolations /\ rule_in = NoViolations
    /\ semantic_in = NoResult /\ cross_in = None
    /\ aggregated = NoResult
    /\ IdleScheme /\ IdleMulti /\ IdleCross /\ IdleFlow

othersOfTally == <<schemeVars, multiVars, crossVars, flowVars>>

\* multi_stage_semantic_validate returns the merged result
TlMerge ==
    /\ merged = NoResult
    /\ merged' = merge_semantic_results(stage_results)
    /\ UNCHANGED <<stage_results, aggVars, othersOfTally>>

\* 4) Aggregation: the merged result is the semantic signal
TlAggregate ==
    /\ merged # NoResult
    /\ aggregated = NoResult
    /\ semantic_in' = merged
    /\ aggregated' = aggregate_validation(schema_in, rule_in, merged, cross_in)
    /\ UNCHANGED <<schema_in, rule_in, cross_in, mergeVars, othersOfTally>>

NextTally == TlMerge \/ TlAggregate

SpecTally == InitTally /\ [][NextTally]_vars

----------------------------------------------------------------------------
(* Claims about the two tallies (SpecTally) *)

\* C28: the error, warning and info counts that aggregate_validation
\* computes from the issues of the merged result equal the stats that
\* merge_semantic_results stored in that result, whatever the severities of
\* the issues are (absent, null or in another case included).
C28_TalliesAgree ==
    aggregated # NoResult => aggregated.summary.semantic = merged.stats

----------------------------------------------------------------------------
(* Specification of aggregate_validation on growing inputs: a document with *)
(* no item and a semantic status of 'valid' or 'skipped' is aggregated, and *)
(* the aggregator is called again after one more item was added to a        *)
(* signal, a cross-model result (empty or with one conflict) was supplied   *)
(* or the semantic status was raised                                        *)

MaxAdded == 3           \* items held by the four signals together

\* items of any severity for each signal
GrowSchemaViolations ==
    SchemaViolations \cup {Violation("bemerkung", "extra_key", "info")}
GrowConflicts ==
    AggConflicts \cup
    {Conflict("bemerkung", "info", "mismatch", <<"mismatch at", "bemerkung">>)}

\* the order of the semantic statuses
StatusRank(st) ==
    CASE st \in {"valid", "skipped"} -> 0
      [] st \in {"uncertain", "parse_error"} -> 1
      [] st = "invalid" -> 2

ItemsHeld ==
    Len(schema_in.violations) + Len(rule_in.violations) + Len(semantic_in.issues)
        + (IF cross_in = None THEN 0 ELSE Len(cross_in.conflicts))

InitGrow ==
    /\ schema_in = ViolationResult(<<>>)
    /\ rule_in = ViolationResult(<<>>)
    /\ semantic_in \in {[status |-> st, issues |-> <<>>] : st \in {"valid", "skipped"}}
    /\ cross_in = None
    /\ aggregated = NoResult
    /\ IdleScheme /\ IdleMerge /\ IdleMulti /\ IdleCross /\ IdleFlow

othersOfGrow == <<schemeVars, mergeVars, multiVars, crossVars, flowVars>>

\* aggregate_validation is called on the given signals
AggregateOn(schema, rule, semantic, cross) ==
    /\ schema_in' = schema /\ rule_in' = rule
    /\ semantic_in' = semantic /\ cross_in' = cross
    /\ aggregated' = aggregate_validation(schema, rule, semantic, cross)
    /\ UNCHANGED othersOfGrow

GrFirst ==
    /\ aggregated = NoResult
    /\ AggregateOn(schema_in, rule_in, semantic_in, cross_in)

GrSchemaViolation ==
    /\ aggregated # NoResult /\ ItemsHeld < MaxAdded
    /\ \E v \in GrowSchemaViolations :
          AggregateOn(ViolationResult(Append(schema_in.violations, v)),
                      rule_in, semantic_in, cross_in)

GrRuleViolation ==
    /\ aggregated # NoResult /\ ItemsHeld < MaxAdded
    /\ \E v \in RuleViolations :
          AggregateOn(schema_in, ViolationResult(Append(rule_in.violations, v)),
                      semantic_in, cross_in)

GrIssue ==
    /\ aggregated # NoResult /\ ItemsHeld < MaxAdded
    /\ \E issue \in SemanticIssues :
          AggregateOn(schema_in, rule_in,
                      [semantic_in EXCEPT !.issues = Append(@, issue)], cross_in)

GrConflict ==
    /\ aggregated # NoResult /\ ItemsHeld < MaxAdded
    /\ cross_in # None
    /\ \E c \in GrowConflicts :
          AggregateOn(schema_in, rule_in, semantic_in,
                      CrossResultOf(Append(cross_in.conflicts, c)))

GrSupplyCross ==
    /\ aggregated # NoResult
    /\ cross_in = None
    /\ \E c \in {<<>>} \cup {<<x>> : x \in GrowConflicts} :
          /\ ItemsHeld + Len(c) <= MaxAdded
          /\ AggregateOn(schema_in, rule_in, semantic_in, CrossResultOf(c))

GrRaiseStatus ==
    /\ aggregated # NoResult
    /\ \E st \in StageStatuses :
          /\ StatusRank(st) > StatusRank(semantic_in.status)
          /\ AggregateOn(schema_in, rule_in,
                         [semantic_in EXCEPT !.status = st], cross_in)

NextGrow ==
    \/ GrFirst \/ GrSchemaViolation \/ GrRuleViolation \/ GrIssue
    \/ GrConflict \/ GrSupplyCross \/ GrRaiseStatus

SpecGrow == InitGrow /\ [][NextGrow]_vars

----------------------------------------------------------------------------
(* Claims about aggregate_validation on growing inputs (SpecGrow) *)

\* the order of the decisions
DecisionRank(final_status) ==
    CASE final_status = "valid" -> 0
      [] final_status = "review_needed" -> 1
      [] final_status = "invalid" -> 2

NeverLowered ==
    aggregated # NoResult
        => DecisionRank(aggregated'.final_status) >= DecisionRank(aggregated.final_status)

\* C30: adding one more violation, issue or conflict of any severity to a
\* signal, supplying a cross-model result where there was none, or raising
\* the semantic status (valid/skipped < uncertain/parse_error < invalid)
\* never gives a final_status below the one returned before, under the
\* order valid < review_needed < invalid.
C30_DecisionMonotone == [][NeverLowered]_vars

\* three additions later: a schema warning, an info rule violation and a
\* cross-model result with an error conflict have made the document invalid
C30_Witness ==
    /\ aggregated # NoResult
    /\ semantic_in.status = "valid" /\ semantic_in.issues = <<>>
    /\ HasItem(schema_in.violations, "warning")
    /\ HasItem(rule_in.violations, "info")
    /\ cross_in # None /\ HasItem(cross_in.conflicts, "error")
    /\ aggregated.final_status = "invalid"

====
